---- MODULE Spec2Model ----
(***************************************************************************)
(* The chunk store (ChunkManager), the collision resolver                  *)
(* (CollisionManager), the world coordinator (WorldManager) and the        *)
(* movement controller (ControlManager) of the voxel world.                *)
(*                                                                         *)
(* Block coordinates are integers. The chunk store is observed through a   *)
(* window of world columns (Cols): a chunk's maps hold the entries of the  *)
(* window's columns only; every chunk of the cache is represented.         *)
(***************************************************************************)
EXTENDS Integers, FiniteSets, Sequences, TLC

VARIABLES
  chunks,     \* ChunkManager.chunks: chunk key -> Chunk
  timers,     \* pending readiness callbacks (setTimeout), in firing order
  nextId,     \* identity of the next chunk object a pending callback refers to
  ops,        \* number of operations performed (bounded by MaxOps)
  last,       \* the operation performed last and what it found
  collisionBlocks,  \* CollisionManager.blocks: the keys of the occupied cells
  observer,   \* the observer's position (camera.position)
  moved,      \* the last call on the collision resolver and its result
  lastPlayerPosition,  \* WorldManager.lastPlayerPosition: the reference position
  isOnGround,        \* ControlManager.isOnGround
  verticalVelocity,  \* ControlManager.verticalVelocity, in thirds of a unit per second
  keys,       \* ControlManager.keys: the codes of the keys held down
  tick,       \* the last movement tick and what it computed
  edited,     \* the edits of a streaming session and whether their chunk was evicted since
  game        \* the GameWorld component: its props and state, and what its effect has set up

storeVars == <<chunks, timers, nextId, ops, last>>
collisionVars == <<collisionBlocks, observer, moved>>
worldVars == <<lastPlayerPosition>>
controlVars == <<isOnGround, verticalVelocity, keys, tick>>
vars == <<storeVars, collisionVars, worldVars, controlVars, edited, game>>

----------------------------------------------------------------------------
(* Program constants (ChunkManager.ts:5-9).                                *)
CHUNK_SIZE == 8
RENDER_DISTANCE == 3
SEA_LEVEL == 20
MAX_HEIGHT == 400

(* Bounds of the model.                                                    *)
MaxOps == 2        \* operations on the chunk store in one behaviour
MaxTicks == 2      \* ticks of the world coordinator in one behaviour
MaxFaults == 1     \* generation passes that throw in one behaviour
MaxTreeDraw == 1   \* the draw Math.floor(Math.random() * 4) comes out in 0..MaxTreeDraw

\* The observed world columns <<worldX, worldZ>>: two straddle the border
\* between chunk (-1,0) and chunk (0,0): a column under water, and a column
\* that can carry a tree whose canopy reaches across the border; the third is
\* a mountain column of chunk (15,0).
Cols == {<<-1, 0>>, <<1, 0>>, <<120, 0>>}

\* Chunks whose generation pass may throw.
FaultChunks == {<<-1, 0>>, <<0, 0>>}

BlockTypes == {"grass", "dirt", "stone", "wood", "sand", "snow", "water"}

Max(a, b) == IF a >= b THEN a ELSE b
Min(a, b) == IF a <= b THEN a ELSE b

----------------------------------------------------------------------------
(* Coordinates and keys.                                                   *)

\* A division by CHUNK_SIZE that rounds toward zero, as (worldX / 8) | 0 does.
getChunkCoord_Trunc(worldX, worldZ) ==
  LET trunc(n) == IF n < 0 THEN -((-n) \div CHUNK_SIZE) ELSE n \div CHUNK_SIZE
  IN  [x |-> trunc(worldX), z |-> trunc(worldZ)]

\* Math.floor(worldX / CHUNK_SIZE): \div floors toward negative infinity.
getChunkCoord(worldX, worldZ) ==
  [x |-> worldX \div CHUNK_SIZE, z |-> worldZ \div CHUNK_SIZE]

\* `${chunkX},${chunkZ}`: one key per pair of integers.
getChunkKey(chunkX, chunkZ) == <<chunkX, chunkZ>>

\* `${x},${y},${z}`: one key per triple of integers.
posKey(x, y, z) == <<x, y, z>>

Position(x, y, z) == [x |-> x, y |-> y, z |-> z]

\* The key of the chunk whose coordinate range contains a position.
chunkKeyOf(p) ==
  LET c == getChunkCoord(p.x, p.z) IN getChunkKey(c.x, c.z)

----------------------------------------------------------------------------
(* Terrain generator.                                                      *)

\* Math.floor(SEA_LEVEL + noise(worldX, worldZ)) for the observed columns
\* (noise is the sum of the three sinusoidal octaves of ChunkManager.noise).
floorHeight(worldX, worldZ) ==
  CASE <<worldX, worldZ>> = <<-1, 0>> -> 16
    [] <<worldX, worldZ>> = <<0, 0>>  -> 20
    [] <<worldX, worldZ>> = <<1, 0>>  -> 23
    [] <<worldX, worldZ>> = <<1, 1>>  -> 23
    [] <<worldX, worldZ>> = <<-8, 0>> -> -7
    [] <<worldX, worldZ>> = <<120, 0>> -> 99

clampedHeightAt(worldX, worldZ) ==
  Max(0, Min(MAX_HEIGHT, floorHeight(worldX, worldZ)))

\* terrainType that gives the top block the material of the layer below it.
terrainType_NoSurface(y, h) ==
  IF y >= h - 4 /\ h > SEA_LEVEL
    THEN IF h <= SEA_LEVEL + 1 THEN "sand" ELSE "dirt"
    ELSE "stone"

\* The material of the terrain block at height y of a column of height h.
terrainType(y, h) ==
  IF y = h
    THEN IF h > SEA_LEVEL + 160 THEN "snow"
         ELSE IF h > SEA_LEVEL + 60 THEN "stone"
         ELSE IF h <= SEA_LEVEL THEN "sand"
         ELSE "grass"
    ELSE IF y >= h - 4 /\ h > SEA_LEVEL
      THEN IF h <= SEA_LEVEL + 1 THEN "sand" ELSE "dirt"
      ELSE "stone"

Block(x, y, z, type) == [position |-> Position(x, y, z), type |-> type]
WaterBlock(x, y, z, level) == [position |-> Position(x, y, z), level |-> level]

\* Water levels are kept in tenths: the level 1.0 of the source is 10.
FullLevel == 10

----------------------------------------------------------------------------
(* The generation pass (ChunkManager.generateChunk).                       *)

EmptyMap == [k \in {} |-> k]

\* An eligible column carries a tree when Math.random() < 0.03.
TreeEligible(h) == h > SEA_LEVEL + 2 /\ h < SEA_LEVEL + 40

Abs(n) == IF n < 0 THEN -n ELSE n

\* The observed cells of the 5x5 canopy footprint of a tree, its own cell excluded.
LeafCells(worldX, worldZ) ==
  {c \in Cols : /\ Abs(c[1] - worldX) <= 2
                /\ Abs(c[2] - worldZ) <= 2
                /\ c # <<worldX, worldZ>>}

\* The random draws of one column: tree is the draw Math.random() < 0.03,
\* height the draw Math.floor(Math.random() * 4), and leaves[c] the draws of
\* canopy cell c: 0 no leaf, 1 the first layer only, 2 both layers.
NoTree(worldX, worldZ) ==
  [tree |-> FALSE, height |-> 0, leaves |-> [c \in LeafCells(worldX, worldZ) |-> 0]]

ColumnDraws(worldX, worldZ) ==
  IF TreeEligible(clampedHeightAt(worldX, worldZ))
    THEN {NoTree(worldX, worldZ)} \cup
         {[tree |-> TRUE, height |-> t, leaves |-> l] :
            t \in 0..Min(3, MaxTreeDraw), l \in [LeafCells(worldX, worldZ) -> 0..2]}
    ELSE {NoTree(worldX, worldZ)}

ColsOfChunk(chunkX, chunkZ) ==
  {c \in Cols : getChunkCoord(c[1], c[2]) = [x |-> chunkX, z |-> chunkZ]}

\* The draws of one generation pass: whether the pass throws, and the draws
\* of each observed column of the chunk. The column draws of a pass that
\* throws leave no trace, so one such pass stands for all of them.
PassDraws(chunkX, chunkZ) ==
  LET cs == ColsOfChunk(chunkX, chunkZ)
      all == UNION {ColumnDraws(c[1], c[2]) : c \in cs}
  IN  {[fail |-> FALSE, col |-> d] :
         d \in {e \in [cs -> all] : \A c \in cs : e[c] \in ColumnDraws(c[1], c[2])}}
      \cup
      (IF getChunkKey(chunkX, chunkZ) \in FaultChunks
         THEN {[fail |-> TRUE, col |-> [c \in cs |-> NoTree(c[1], c[2])]]}
         ELSE {})

\* A loop of setBlockInChunk / setWaterBlockInChunk calls: map.set(key, entry)
\* for each entry. The writes of one loop land on different keys, so the loop
\* is the override of the map by the entries it writes. The columns of a pass
\* are those its draws are given for: entries of columns outside the
\* observation window are not represented.
Overwrite(map, entries) ==
  [k \in DOMAIN entries \cup DOMAIN map |-> IF k \in DOMAIN entries THEN entries[k] ELSE map[k]]

\* for (y = 0; y <= clampedHeight; y++) setBlockInChunk(..., blockType)
terrainLoop(chunk, worldX, worldZ, h) ==
  [chunk EXCEPT !.blocks = Overwrite(@,
          [k \in {posKey(worldX, y, worldZ) : y \in 0..h} |->
             Block(worldX, k[2], worldZ, terrainType(k[2], h))])]

\* A water loop that stops one level below the sea level.
waterLoop_BelowSeaLevel(chunk, worldX, worldZ, h) ==
  [chunk EXCEPT !.waterBlocks = Overwrite(@,
          [k \in {posKey(worldX, y, worldZ) : y \in (h + 1)..(SEA_LEVEL - 1)} |->
             WaterBlock(worldX, k[2], worldZ, FullLevel)])]

\* for (y = clampedHeight + 1; y <= SEA_LEVEL; y++) setWaterBlockInChunk(..., 1.0)
waterLoop(chunk, worldX, worldZ, h) ==
  [chunk EXCEPT !.waterBlocks = Overwrite(@,
          [k \in {posKey(worldX, y, worldZ) : y \in (h + 1)..SEA_LEVEL} |->
             WaterBlock(worldX, k[2], worldZ, FullLevel)])]

\* for (treeY = clampedHeight + 1; treeY <= clampedHeight + treeHeight; treeY++)
trunkLoop(chunk, worldX, worldZ, h, treeHeight) ==
  [chunk EXCEPT !.blocks = Overwrite(@,
          [k \in {posKey(worldX, treeY, worldZ) : treeY \in (h + 1)..(h + treeHeight)} |->
             Block(worldX, k[2], worldZ, "wood")])]

\* The canopy loops over leafX and leafZ: a first layer at y where the cell's
\* draw is 1 or 2, a second layer at y + 1 where it is 2. Cells outside the
\* window (those without a draw) leave no entry.
leafLoop(chunk, worldX, worldZ, y, leaves) ==
  LET cells == DOMAIN leaves
      leafKeys == {posKey(c[1], y, c[2]) : c \in {d \in cells : leaves[d] >= 1}} \cup
                  {posKey(c[1], y + 1, c[2]) : c \in {d \in cells : leaves[d] = 2}}
  IN  [chunk EXCEPT !.blocks = Overwrite(@,
          [k \in leafKeys |-> Block(k[1], k[2], k[3], "grass")])]

\* One iteration of the column loops of generateChunk.
genColumn(chunk, worldX, worldZ, d) ==
  LET clampedHeight == clampedHeightAt(worldX, worldZ)
      terrain == terrainLoop(chunk, worldX, worldZ, clampedHeight)
      watered == IF clampedHeight < SEA_LEVEL
                   THEN waterLoop(terrain, worldX, worldZ, clampedHeight)
                   ELSE terrain
      treeHeight == 6 + d.height
  IN  IF TreeEligible(clampedHeight) /\ d.tree
        THEN leafLoop(trunkLoop(watered, worldX, worldZ, clampedHeight, treeHeight),
                      worldX, worldZ, clampedHeight + treeHeight + 1, d.leaves)
        ELSE watered

\* The column loops, localX outermost.
RECURSIVE genColumns(_, _, _)
genColumns(chunk, cols, draw) ==
  IF cols = {} THEN chunk
  ELSE LET c == CHOOSE a \in cols : \A b \in cols \ {a} :
                  a[1] < b[1] \/ (a[1] = b[1] /\ a[2] < b[2])
       IN  genColumns(genColumn(chunk, c[1], c[2], draw.col[c]), cols \ {c}, draw)

\* generateChunk: the pass, or the empty not-ready chunk of the catch block.
\* id is 0: getOrGenerateChunk names the object when a callback needs it.
generateChunk(chunkX, chunkZ, draw) ==
  LET fresh(g) == [x |-> chunkX, z |-> chunkZ, blocks |-> EmptyMap,
                   waterBlocks |-> EmptyMap, generated |-> g, id |-> 0]
  IN  IF draw.fail THEN fresh(FALSE)
      ELSE genColumns(fresh(TRUE), DOMAIN draw.col, draw)

----------------------------------------------------------------------------
(* The chunk cache. A store st is the record [chunks, timers, nextId].      *)

Delete(map, key) == [k \in DOMAIN map \ {key} |-> map[k]]

\* The draws of a pass over a chunk none of whose columns is observed.
PlainDraw == [fail |-> FALSE, col |-> EmptyMap]

\* getOrGenerateChunk that gives the object of a failed pass the identity of
\* the one before it.
getOrGenerateChunk_SameObject(st, chunkX, chunkZ, draw) ==
  LET key == getChunkKey(chunkX, chunkZ)
      chunk == generateChunk(chunkX, chunkZ, draw)
  IN  IF key \in DOMAIN st.chunks THEN st
      ELSE IF chunk.generated
        THEN [st EXCEPT !.chunks = (key :> chunk) @@ @]
        ELSE [chunks  |-> (key :> [chunk EXCEPT !.id = 1]) @@ st.chunks,
              timers  |-> Append(st.timers, 1),
              nextId  |-> 2]

\* getOrGenerateChunk. The callback of setTimeout sets chunk.generated = true
\* on the object generated here: for an object whose flag is already true it
\* changes nothing, so it is recorded (and the object given an id) only for
\* an object that is not ready.
getOrGenerateChunk(st, chunkX, chunkZ, draw) ==
  LET key == getChunkKey(chunkX, chunkZ)
      chunk == generateChunk(chunkX, chunkZ, draw)
  IN  IF key \in DOMAIN st.chunks THEN st
      ELSE IF chunk.generated
        THEN [st EXCEPT !.chunks = (key :> chunk) @@ @]
        ELSE [chunks  |-> (key :> [chunk EXCEPT !.id = st.nextId]) @@ st.chunks,
              timers  |-> Append(st.timers, st.nextId),
              nextId  |-> st.nextId + 1]

\* The chunk keys of the load loops of updateLoadedChunks.
loadedChunks(playerX, playerZ) ==
  LET playerChunk == getChunkCoord(playerX, playerZ)
  IN  {getChunkKey(x, z) :
         x \in (playerChunk.x - RENDER_DISTANCE)..(playerChunk.x + RENDER_DISTANCE),
         z \in (playerChunk.z - RENDER_DISTANCE)..(playerChunk.z + RENDER_DISTANCE)}

\* The load loops, x outermost: getOrGenerateChunk on every key of the set.
RECURSIVE loadLoop(_, _, _)
loadLoop(st, chunkKeys, draws) ==
  IF chunkKeys = {} THEN st
  ELSE LET k == CHOOSE a \in chunkKeys : \A b \in chunkKeys \ {a} :
                  a[1] < b[1] \/ (a[1] = b[1] /\ a[2] < b[2])
       IN  loadLoop(getOrGenerateChunk(st, k[1], k[2], draws[k]), chunkKeys \ {k}, draws)

\* updateLoadedChunks without the unload loop.
updateLoadedChunks_NoUnload(st, playerX, playerZ, draws) ==
  LET wanted == loadedChunks(playerX, playerZ)
      loaded == loadLoop(st, wanted \cap DOMAIN draws, draws)
  IN  [loaded EXCEPT !.chunks =
         [k \in wanted \cup DOMAIN loaded.chunks |->
            IF k \in DOMAIN loaded.chunks THEN loaded.chunks[k]
            ELSE generateChunk(k[1], k[2], PlainDraw)]]

\* updateLoadedChunks: load the square around the player, unload the rest.
\* draws holds the draws of the passes over chunks with observed columns; a
\* pass over any other chunk leaves a ready chunk without observed entries
\* and touches neither timers nor nextId, so those chunks are added at once.
updateLoadedChunks(st, playerX, playerZ, draws) ==
  LET wanted == loadedChunks(playerX, playerZ)
      loaded == loadLoop(st, wanted \cap DOMAIN draws, draws)
  IN  [loaded EXCEPT !.chunks =
         [k \in wanted |->
            IF k \in DOMAIN loaded.chunks THEN loaded.chunks[k]
            ELSE generateChunk(k[1], k[2], PlainDraw)]]

\* placeBlock that leaves the water entry in place.
placeBlock_KeepWater(st, position, type, draw) ==
  IF position.y < 0 \/ position.y > MAX_HEIGHT + 20 THEN st
  ELSE IF type = "water" THEN st
  ELSE LET chunkCoord == getChunkCoord(position.x, position.z)
           got == getOrGenerateChunk(st, chunkCoord.x, chunkCoord.z, draw)
           key == getChunkKey(chunkCoord.x, chunkCoord.z)
           blockKey == posKey(position.x, position.y, position.z)
       IN  [got EXCEPT !.chunks[key].blocks =
              (blockKey :> [position |-> position, type |-> type]) @@ @]

\* placeBlock without the upper height check.
placeBlock_NoTopCheck(st, position, type, draw) ==
  IF position.y < 0 THEN st
  ELSE IF type = "water" THEN st
  ELSE LET chunkCoord == getChunkCoord(position.x, position.z)
           got == getOrGenerateChunk(st, chunkCoord.x, chunkCoord.z, draw)
           key == getChunkKey(chunkCoord.x, chunkCoord.z)
           pk == posKey(position.x, position.y, position.z)
       IN  [got EXCEPT !.chunks[key] =
              [@ EXCEPT !.waterBlocks = Delete(@, pk),
                        !.blocks = (pk :> [position |-> position, type |-> type]) @@ @]]

\* placeBlock that, like removeBlock, ignores a position whose chunk is not cached.
placeBlock_CachedOnly(st, position, type, draw) ==
  IF position.y < 0 \/ position.y > MAX_HEIGHT + 20 THEN st
  ELSE IF type = "water" THEN st
  ELSE LET chunkCoord == getChunkCoord(position.x, position.z)
           key == getChunkKey(chunkCoord.x, chunkCoord.z)
           pk == posKey(position.x, position.y, position.z)
       IN  IF key \notin DOMAIN st.chunks THEN st
           ELSE [st EXCEPT !.chunks[key] =
                   [@ EXCEPT !.waterBlocks = Delete(@, pk),
                             !.blocks = (pk :> [position |-> position, type |-> type]) @@ @]]

\* placeBlock
placeBlock(st, position, type, draw) ==
  IF position.y < 0 \/ position.y > MAX_HEIGHT + 20 THEN st
  ELSE IF type = "water" THEN st
  ELSE LET chunkCoord == getChunkCoord(position.x, position.z)
           got == getOrGenerateChunk(st, chunkCoord.x, chunkCoord.z, draw)
           key == getChunkKey(chunkCoord.x, chunkCoord.z)
           waterKey == posKey(position.x, position.y, position.z)
           blockKey == posKey(position.x, position.y, position.z)
       IN  [got EXCEPT !.chunks[key] =
              [@ EXCEPT !.waterBlocks = Delete(@, waterKey),
                        !.blocks = (blockKey :> [position |-> position, type |-> type]) @@ @]]

\* removeBlock that refills water strictly below sea level only.
removeBlock_StrictSea(st, position) ==
  LET chunkCoord == getChunkCoord(position.x, position.z)
      key == getChunkKey(chunkCoord.x, chunkCoord.z)
      pk == posKey(position.x, position.y, position.z)
  IN  IF key \notin DOMAIN st.chunks THEN st
      ELSE [st EXCEPT !.chunks[key] =
              [@ EXCEPT !.blocks = Delete(@, pk),
                        !.waterBlocks =
                           IF position.y < SEA_LEVEL
                             THEN (pk :> [position |-> position, level |-> FullLevel]) @@ @
                             ELSE @]]

\* removeBlock that, like placeBlock, caches a chunk for a position that has none.
removeBlock_Caching(st, position) ==
  LET chunkCoord == getChunkCoord(position.x, position.z)
      key == getChunkKey(chunkCoord.x, chunkCoord.z)
      pk == posKey(position.x, position.y, position.z)
      fresh == [x |-> chunkCoord.x, z |-> chunkCoord.z, blocks |-> EmptyMap,
                waterBlocks |-> EmptyMap, generated |-> TRUE, id |-> 0]
      got == IF key \in DOMAIN st.chunks THEN st
             ELSE [st EXCEPT !.chunks = (key :> fresh) @@ @]
  IN  [got EXCEPT !.chunks[key] =
         [@ EXCEPT !.blocks = Delete(@, pk),
                   !.waterBlocks =
                      IF position.y <= SEA_LEVEL
                        THEN (pk :> [position |-> position, level |-> FullLevel]) @@ @
                        ELSE @]]

\* removeBlock
removeBlock(st, position) ==
  LET chunkCoord == getChunkCoord(position.x, position.z)
      key == getChunkKey(chunkCoord.x, chunkCoord.z)
      blockKey == posKey(position.x, position.y, position.z)
      waterKey == posKey(position.x, position.y, position.z)
  IN  IF key \notin DOMAIN st.chunks THEN st
      ELSE [st EXCEPT !.chunks[key] =
              [@ EXCEPT !.blocks = Delete(@, blockKey),
                        !.waterBlocks =
                           IF position.y <= SEA_LEVEL
                             THEN (waterKey :> [position |-> position, level |-> FullLevel]) @@ @
                             ELSE @]]

\* getAllLoadedBlocks: the blocks of the ready chunks, as a bag (the order of
\* the array is the iteration order of the maps and is not represented).
readyEntries(chs, field) ==
  UNION {{<<c, k>> : k \in DOMAIN chs[c][field]} : c \in {r \in DOMAIN chs : chs[r].generated}}

\* getAllLoadedBlocks without the test of the ready flag.
getAllLoadedBlocks_All(chs) ==
  LET ents == UNION {{<<c, k>> : k \in DOMAIN chs[c].blocks} : c \in DOMAIN chs}
      val(e) == chs[e[1]].blocks[e[2]]
  IN  [b \in {val(e) : e \in ents} |-> Cardinality({e \in ents : val(e) = b})]

getAllLoadedBlocks(chs) ==
  LET ents == readyEntries(chs, "blocks")
      val(e) == chs[e[1]].blocks[e[2]]
  IN  [b \in {val(e) : e \in ents} |-> Cardinality({e \in ents : val(e) = b})]

\* getAllLoadedWaterBlocks
getAllLoadedWaterBlocks(chs) ==
  LET ents == readyEntries(chs, "waterBlocks")
      val(e) == chs[e[1]].waterBlocks[e[2]]
  IN  [w \in {val(e) : e \in ents} |-> Cardinality({e \in ents : val(e) = w})]

\* getWorldData: per chunk key the record {x, z, blocks, waterBlocks,
\* generated}, the maps as lists of [key, value] entries.
entriesOf(map) == {<<k, map[k]>> : k \in DOMAIN map}

getWorldData(chs) ==
  [chunks |-> [key \in DOMAIN chs |->
     [x |-> chs[key].x, z |-> chs[key].z,
      blocks |-> entriesOf(chs[key].blocks),
      waterBlocks |-> entriesOf(chs[key].waterBlocks),
      generated |-> chs[key].generated]]]

\* a || b of JavaScript on booleans.
JsOr(a, b) == IF a THEN a ELSE b

mapOf(entries) ==
  [k \in {e[1] : e \in entries} |-> (CHOOSE e \in entries : e[1] = k)[2]]

\* loadWorldData on a snapshot with a chunks field: the cache is cleared and
\* rebuilt from the entries; the chunk objects are new ones.
loadWorldData(data) ==
  [key \in DOMAIN data.chunks |->
     [x |-> data.chunks[key].x, z |-> data.chunks[key].z,
      blocks |-> mapOf(data.chunks[key].blocks),
      waterBlocks |-> mapOf(data.chunks[key].waterBlocks),
      generated |-> JsOr(data.chunks[key].generated, TRUE),
      id |-> 0]]

\* Payloads of a restore. A payload is the parsed JSON value handed to
\* loadWorldData: null, or an object. A well-formed object is what
\* getWorldData returns. A chunk entry is null, or an object; an entry whose
\* blocks field is not a list (a number, say) carries the field notList.
NullData == [null |-> TRUE]
isNull(v) == "null" \in DOMAIN v

\* Reading chunkData.x of a null entry, or calling forEach on a blocks (or
\* waterBlocks) value that is truthy and not a list, throws a TypeError.
throwsOn(chunkData) == isNull(chunkData) \/ "notList" \in DOMAIN chunkData

\* ChunkManager.loadWorldData that keeps the chunks cached before the call.
chunkManagerLoadWorldData_Merge(chs, data, order) ==
  IF isNull(data) \/ "chunks" \notin DOMAIN data
    THEN [chunks |-> chs, threw |-> FALSE]
    ELSE LET bad == {i \in 1..Len(order) : throwsOn(data.chunks[order[i]])}
         IN  IF bad = {}
               THEN [chunks |-> loadWorldData(data) @@ chs, threw |-> FALSE]
               ELSE LET first == CHOOSE i \in bad : \A j \in bad : i <= j
                        done == {order[i] : i \in 1..(first - 1)}
                    IN  [chunks |-> loadWorldData([chunks |-> [k \in done |-> data.chunks[k]]]) @@ chs,
                         threw |-> TRUE]

\* ChunkManager.loadWorldData on any payload. The result is the cache the
\* call leaves and whether it threw. order is the order in which
\* Object.entries lists the keys of data.chunks; it is read only when an
\* entry throws: the entries before the first such entry are cached, and
\* the cache was cleared before the first entry.
chunkManagerLoadWorldData(chs, data, order) ==
  IF isNull(data) \/ "chunks" \notin DOMAIN data
    THEN [chunks |-> chs, threw |-> FALSE]
    ELSE LET bad == {i \in 1..Len(order) : throwsOn(data.chunks[order[i]])}
         IN  IF bad = {}
               THEN [chunks |-> loadWorldData(data), threw |-> FALSE]
               ELSE LET first == CHOOSE i \in bad : \A j \in bad : i <= j
                        done == {order[i] : i \in 1..(first - 1)}
                    IN  [chunks |-> loadWorldData([chunks |-> [k \in done |-> data.chunks[k]]]),
                         threw |-> TRUE]

\* WorldManager.generateTerrain
generateTerrain(st, draws) == updateLoadedChunks(st, 0, 0, draws)

\* updateWorld that refreshes only beyond a displacement of a whole chunk.
updateWorld_Threshold8(w, playerX, playerZ, draws) ==
  LET dx == Abs(playerX - w.lastPlayerPosition.x)
      dz == Abs(playerZ - w.lastPlayerPosition.z)
      r == updateLoadedChunks(w, playerX, playerZ, draws)
  IN  IF dx > 8 \/ dz > 8
        THEN [chunks |-> r.chunks, timers |-> r.timers, nextId |-> r.nextId,
              lastPlayerPosition |-> [x |-> playerX, z |-> playerZ], refreshed |-> TRUE]
        ELSE [chunks |-> w.chunks, timers |-> w.timers, nextId |-> w.nextId,
              lastPlayerPosition |-> w.lastPlayerPosition, refreshed |-> FALSE]

\* updateWorld that refreshes from a displacement of 4 on.
updateWorld_From4(w, playerX, playerZ, draws) ==
  LET dx == Abs(playerX - w.lastPlayerPosition.x)
      dz == Abs(playerZ - w.lastPlayerPosition.z)
      r == updateLoadedChunks(w, playerX, playerZ, draws)
  IN  IF dx >= 4 \/ dz >= 4
        THEN [chunks |-> r.chunks, timers |-> r.timers, nextId |-> r.nextId,
              lastPlayerPosition |-> [x |-> playerX, z |-> playerZ], refreshed |-> TRUE]
        ELSE [chunks |-> w.chunks, timers |-> w.timers, nextId |-> w.nextId,
              lastPlayerPosition |-> w.lastPlayerPosition, refreshed |-> FALSE]

\* WorldManager.updateWorld on the world w (a store with the field
\* lastPlayerPosition). The field refreshed of the result tells whether
\* updateLoadedChunks was called.
updateWorld(w, playerX, playerZ, draws) ==
  LET dx == Abs(playerX - w.lastPlayerPosition.x)
      dz == Abs(playerZ - w.lastPlayerPosition.z)
      r == updateLoadedChunks(w, playerX, playerZ, draws)
  IN  IF dx > 4 \/ dz > 4
        THEN [chunks |-> r.chunks, timers |-> r.timers, nextId |-> r.nextId,
              lastPlayerPosition |-> [x |-> playerX, z |-> playerZ], refreshed |-> TRUE]
        ELSE [chunks |-> w.chunks, timers |-> w.timers, nextId |-> w.nextId,
              lastPlayerPosition |-> w.lastPlayerPosition, refreshed |-> FALSE]

\* WorldManager.loadWorldData: the restore of the chunk store for a payload
\* that is not null, generateTerrain for null. The result is a store with
\* the field threw.
worldManagerLoadWorldData(st, data, order, draws) ==
  IF ~isNull(data)
    THEN LET r == chunkManagerLoadWorldData(st.chunks, data, order)
         IN  [chunks |-> r.chunks, timers |-> st.timers, nextId |-> st.nextId,
              threw |-> r.threw]
    ELSE LET g == generateTerrain(st, draws)
         IN  [chunks |-> g.chunks, timers |-> g.timers, nextId |-> g.nextId,
              threw |-> FALSE]

----------------------------------------------------------------------------
(* The collision resolver (CollisionManager). Lengths are in 180ths of a   *)
(* scene unit, so that 0.25, 0.3, 0.5 and 1.0 and the vertical displacement *)
(* of a tick (a multiple of 1/3 * 1/60) are integers; the arithmetic is     *)
(* exact.                                                                  *)
BLOCK_SIZE == 90      \* 0.5
PLAYER_HEIGHT == 180  \* 1.0
PLAYER_WIDTH == 108   \* 0.6

Vec(x, y, z) == [x |-> x, y |-> y, z |-> z]
Box(min, max) == [min |-> min, max |-> max]

getPlayerBoundingBox(position) ==
  LET halfWidth == PLAYER_WIDTH \div 2
  IN  Box(Vec(position.x - halfWidth, position.y - PLAYER_HEIGHT, position.z - halfWidth),
          Vec(position.x + halfWidth, position.y, position.z + halfWidth))

getBlockBoundingBox(x, y, z) ==
  LET halfSize == BLOCK_SIZE \div 2
      worldX == x * BLOCK_SIZE
      worldY == y * BLOCK_SIZE
      worldZ == z * BLOCK_SIZE
  IN  Box(Vec(worldX - halfSize, worldY - halfSize, worldZ - halfSize),
          Vec(worldX + halfSize, worldY + halfSize, worldZ + halfSize))

\* THREE.Box3.intersectsBox: the boxes share a point (touching counts).
intersectsBox(a, b) ==
  ~ \/ b.max.x < a.min.x \/ b.min.x > a.max.x
    \/ b.max.y < a.min.y \/ b.min.y > a.max.y
    \/ b.max.z < a.min.z \/ b.min.z > a.max.z

\* hasCollisionAtPosition: the occupied cells of the range
\* floor(min / BLOCK_SIZE)..floor(max / BLOCK_SIZE) whose box meets the player's.
hasCollisionAtPosition(index, position) ==
  LET playerBox == getPlayerBoundingBox(position)
      minBlockX == playerBox.min.x \div BLOCK_SIZE
      maxBlockX == playerBox.max.x \div BLOCK_SIZE
      minBlockY == playerBox.min.y \div BLOCK_SIZE
      maxBlockY == playerBox.max.y \div BLOCK_SIZE
      minBlockZ == playerBox.min.z \div BLOCK_SIZE
      maxBlockZ == playerBox.max.z \div BLOCK_SIZE
  IN  \E x \in minBlockX..maxBlockX, y \in minBlockY..maxBlockY, z \in minBlockZ..maxBlockZ :
        /\ posKey(x, y, z) \in index
        /\ intersectsBox(playerBox, getBlockBoundingBox(x, y, z))

\* checkCollision whose Z test is made at the new x, not at the corrected x.
checkCollision_ZAtNewX(index, position, velocity) ==
  LET newPosition == Vec(position.x + velocity.x, position.y + velocity.y,
                         position.z + velocity.z)
      testPosX == Vec(newPosition.x, position.y, position.z)
      correctedX == IF hasCollisionAtPosition(index, testPosX) THEN position.x ELSE newPosition.x
      testPosY == Vec(correctedX, newPosition.y, position.z)
      correctedY == IF hasCollisionAtPosition(index, testPosY) THEN position.y ELSE newPosition.y
      testPosZ == Vec(newPosition.x, correctedY, newPosition.z)
      correctedZ == IF hasCollisionAtPosition(index, testPosZ) THEN position.z ELSE newPosition.z
  IN  Vec(correctedX, correctedY, correctedZ)

\* checkCollision that tests the whole new position once and rejects all of it.
checkCollision_AllOrNothing(index, position, velocity) ==
  LET newPosition == Vec(position.x + velocity.x, position.y + velocity.y,
                         position.z + velocity.z)
  IN  IF hasCollisionAtPosition(index, newPosition) THEN position ELSE newPosition

\* checkCollision: the delta is applied axis by axis, X, then Y, then Z.
checkCollision(index, position, velocity) ==
  LET newPosition == Vec(position.x + velocity.x, position.y + velocity.y,
                         position.z + velocity.z)
      originalPos == position
      testPosX == Vec(newPosition.x, originalPos.y, originalPos.z)
      correctedX == IF hasCollisionAtPosition(index, testPosX) THEN originalPos.x ELSE newPosition.x
      testPosY == Vec(correctedX, newPosition.y, originalPos.z)
      correctedY == IF hasCollisionAtPosition(index, testPosY) THEN originalPos.y ELSE newPosition.y
      testPosZ == Vec(correctedX, correctedY, newPosition.z)
      correctedZ == IF hasCollisionAtPosition(index, testPosZ) THEN originalPos.z ELSE newPosition.z
  IN  Vec(correctedX, correctedY, correctedZ)

\* updateBlocks: the index is cleared and rebuilt from the positions of the blocks.
updateBlocks(blocks) ==
  {posKey(b.position.x, b.position.y, b.position.z) : b \in blocks}

\* Inputs of the resolver: the cells that may be occupied, the observer's
\* positions and the per-axis displacements. Positions are multiples of 0.1
\* (18), so that no face of the observer's box lies in the plane of a face
\* of a cell. GridX
\* holds positions on both sides of cell (0,0,0), so that the cell is
\* approached along +X and along -X.
CellPool == {<<0, 0, 0>>, <<-1, -3, 1>>}
GridX == {-108, -90, -72, -54, 90, 108}
GridY == {-54, -36, -18, 0, 18}
GridZ == {54, 72, 90, 108}
Steps == {-18, 0, 18}

StartPosition == Vec(-108, 0, 108)
NoMove == [op |-> "none", from |-> StartPosition, velocity |-> Vec(0, 0, 0), to |-> StartPosition]

InGrid(p) == p.x \in GridX /\ p.y \in GridY /\ p.z \in GridZ


\* getGroundHeight whose scan has no lower and no upper end.
getGroundHeight_Unbounded(index, x, z) ==
  LET ys == {c[2] : c \in {d \in index : /\ d[1] = x \div BLOCK_SIZE
                                         /\ d[3] = z \div BLOCK_SIZE}}
  IN  IF ys = {} THEN PLAYER_HEIGHT
      ELSE ((CHOOSE y \in ys : \A w \in ys : w <= y) + 1) * BLOCK_SIZE + PLAYER_HEIGHT

\* getGroundHeight: for (y = 200; y >= -10; y--) the first y whose key
\* `${floor(x / 0.5)},${y},${floor(z / 0.5)}` is in the index gives
\* (y + 1) * BLOCK_SIZE + PLAYER_HEIGHT; PLAYER_HEIGHT when the loop ends.
getGroundHeight(index, x, z) ==
  LET hits == {k[2] : k \in {c \in index : /\ c[2] \in -10..200
                                          /\ c = posKey(x \div BLOCK_SIZE, c[2], z \div BLOCK_SIZE)}}
      first == CHOOSE y \in hits : \A w \in hits : w <= y
  IN  IF hits = {} THEN PLAYER_HEIGHT
      ELSE (first + 1) * BLOCK_SIZE + PLAYER_HEIGHT

----------------------------------------------------------------------------
(* The movement controller (ControlManager.updateMovement). A tick lasts   *)
(* 1/60 s. verticalVelocity is kept in thirds of a unit per second, so     *)
(* that GRAVITY * delta is -1 and the vertical displacement of a tick,     *)
(* verticalVelocity * delta, is verticalVelocity 180ths of a unit.         *)
GRAVITY == -20
JUMP_FORCE == 8
MOVE_SPEED == 15
TicksPerSecond == 60    \* delta = 1 / 60

\* GRAVITY * delta and JUMP_FORCE in thirds of a unit per second; MOVE_SPEED *
\* delta (0.25) in 180ths of a unit.
GravityStep == (3 * GRAVITY) \div TicksPerSecond
JumpImpulse == 3 * JUMP_FORCE
MoveStep == (180 * MOVE_SPEED) \div TicksPerSecond

\* camera.getWorldDirection with y zeroed, and direction x camera.up, for the
\* orientation the camera is created with (it looks along -Z).
direction == Vec(0, 0, -1)
right == Vec(1, 0, 0)

Sign(n) == IF n > 0 THEN 1 ELSE IF n < 0 THEN -1 ELSE 0

\* The horizontal velocity of a tick: the sum of the directions of the held
\* keys, normalised and scaled by MOVE_SPEED * delta when it is not zero. The
\* key sets of the model hold keys of one axis only, so the normalised sum is
\* a unit vector along that axis.
horizontalVelocity(held) ==
  LET f == (IF "KeyW" \in held THEN 1 ELSE 0) - (IF "KeyS" \in held THEN 1 ELSE 0)
      r == (IF "KeyD" \in held THEN 1 ELSE 0) - (IF "KeyA" \in held THEN 1 ELSE 0)
      sumX == f * direction.x + r * right.x
      sumZ == f * direction.z + r * right.z
  IN  Vec(Sign(sumX) * MoveStep, 0, Sign(sumZ) * MoveStep)

\* The end of updateMovement: np is the resolved position, vv the vertical
\* velocity after the jump, fly and gravity steps, grounded the outcome of
\* the grounding test.
Landed(index, np, vv, velocity, grounded) ==
  LET groundHeight == getGroundHeight(index, np.x, np.z)
  IN  [position |-> IF grounded THEN Vec(np.x, groundHeight, np.z) ELSE np,
       verticalVelocity |-> IF grounded THEN 0 ELSE vv,
       isOnGround |-> grounded,
       velocity |-> velocity, vvTest |-> vv,
       resolved |-> np, groundHeight |-> groundHeight]

\* updateMovement that lands whatever the vertical velocity is.
updateMovement_AnyVelocity(index, position, onGround, vv, held) ==
  LET h == horizontalVelocity(held)
      jump == "Space" \in held /\ onGround
      vvJump == IF jump THEN JumpImpulse ELSE vv
      shift == "ShiftLeft" \in held
      vvFly == IF shift THEN 0 ELSE vvJump + GravityStep
      vy == IF shift /\ "Space" \in held THEN MoveStep
            ELSE IF shift THEN -MoveStep ELSE vvFly
      velocity == Vec(h.x, vy, h.z)
      newPosition == checkCollision(index, position, velocity)
  IN  Landed(index, newPosition, vvFly, velocity,
             newPosition.y <= getGroundHeight(index, newPosition.x, newPosition.z))

\* updateMovement that bypasses gravity only when ShiftLeft and Space are
\* both held.
updateMovement_FlyNeedsBoth(index, position, onGround, vv, held) ==
  LET h == horizontalVelocity(held)
      jump == "Space" \in held /\ onGround
      vvJump == IF jump THEN JumpImpulse ELSE vv
      fly == "ShiftLeft" \in held /\ "Space" \in held
      vvFly == IF fly THEN 0 ELSE vvJump + GravityStep
      vy == IF fly THEN MoveStep ELSE vvFly
      velocity == Vec(h.x, vy, h.z)
      newPosition == checkCollision(index, position, velocity)
  IN  Landed(index, newPosition, vvFly, velocity,
             /\ newPosition.y <= getGroundHeight(index, newPosition.x, newPosition.z)
             /\ vvFly <= 0)

\* updateMovement that applies the jump impulse whenever Space is held.
updateMovement_JumpAnywhere(index, position, onGround, vv, held) ==
  LET h == horizontalVelocity(held)
      jump == "Space" \in held
      vvJump == IF jump THEN JumpImpulse ELSE vv
      shift == "ShiftLeft" \in held
      vvFly == IF shift THEN 0 ELSE vvJump + GravityStep
      vy == IF shift /\ "Space" \in held THEN MoveStep
            ELSE IF shift THEN -MoveStep ELSE vvFly
      velocity == Vec(h.x, vy, h.z)
      newPosition == checkCollision(index, position, velocity)
  IN  Landed(index, newPosition, vvFly, velocity,
             /\ newPosition.y <= getGroundHeight(index, newPosition.x, newPosition.z)
             /\ vvFly <= 0)

\* updateMovement: the horizontal velocity of the held keys; the jump impulse
\* when Space is held on the ground; ShiftLeft with Space flies up, ShiftLeft
\* alone flies down, both with the vertical velocity zeroed, otherwise gravity
\* is added; the displacement is resolved by checkCollision from the original
\* position; the observer lands when the resolved y is at or below the ground
\* height and the vertical velocity is not positive.
updateMovement(index, position, onGround, vv, held) ==
  LET originalPosition == position
      h == horizontalVelocity(held)
      jump == "Space" \in held /\ onGround
      vvJump == IF jump THEN JumpImpulse ELSE vv
      vvFly == IF "ShiftLeft" \in held /\ "Space" \in held THEN 0
               ELSE IF "ShiftLeft" \in held THEN 0
               ELSE vvJump + GravityStep
      vy == IF "ShiftLeft" \in held /\ "Space" \in held THEN MoveStep
            ELSE IF "ShiftLeft" \in held THEN -MoveStep
            ELSE vvFly
      velocity == Vec(h.x, vy, h.z)
      newPosition == checkCollision(index, originalPosition, velocity)
      groundHeight == getGroundHeight(index, newPosition.x, newPosition.z)
  IN  Landed(index, newPosition, vvFly, velocity,
             newPosition.y <= groundHeight /\ vvFly <= 0)

\* The record of a movement tick; NoTick before the first one.
NoTick ==
  [op |-> "none", keys |-> {}, index |-> {}, from |-> StartPosition,
   wasOnGround |-> FALSE, vvStart |-> 0, velocity |-> Vec(0, 0, 0), vvTest |-> 0,
   resolved |-> StartPosition, groundHeight |-> 0]

\* A session's edits: position -> [kind, evicted]; none at first.
NoEdits == [p \in {} |-> p]

\* The GameWorld component before its effect has run: the save it was given
\* (worldData), the selected block, the animation loops and click listeners
\* set up so far, the frames since the effect ran last and the clicks so far.
NoGame ==
  [worldData |-> [null |-> TRUE], selectedBlock |-> "grass",
   loops |-> 0, handlers |-> 0, frames |-> 0, clicks |-> 0]

----------------------------------------------------------------------------
(* The chunk store as a state machine.                                     *)

\* Inputs of the operations.
ObserverXs == {0, 120}
MutPositions ==
  {Position(-1, -1, 0), Position(-1, 0, 0), Position(-1, 20, 0),
   Position(-1, 30, 0), Position(-1, 420, 0), Position(-1, 421, 0)}
\* The place requests: a stone block at each position, water at one of them.
PlaceInputs ==
  {<<p, "stone">> : p \in MutPositions} \cup {<<Position(-1, 0, 0), "water">>}

NoPosition == Position(0, 0, 0)

Store == [chunks |-> chunks, timers |-> timers, nextId |-> nextId]

Apply(st) ==
  /\ st.nextId - 1 <= MaxFaults
  /\ chunks' = st.chunks
  /\ timers' = st.timers
  /\ nextId' = st.nextId

\* What an operation on a position finds before it acts.
Found(op, position, type) ==
  LET key == chunkKeyOf(position)
      pk == posKey(position.x, position.y, position.z)
      cached == key \in DOMAIN chunks
  IN  [op |-> op, position |-> position, type |-> type,
       cached |-> cached,
       hadBlock |-> cached /\ pk \in DOMAIN chunks[key].blocks,
       hadWater |-> cached /\ pk \in DOMAIN chunks[key].waterBlocks,
       before |-> IF op \in {"refresh", "restore", "tick", "frame"} THEN DOMAIN chunks ELSE {},
       data |-> NullData,
       threw |-> FALSE]

Init ==
  /\ chunks = EmptyMap
  /\ timers = <<>>
  /\ nextId = 1
  /\ ops = 0
  /\ last = Found("init", NoPosition, "none")
  /\ collisionBlocks = {}
  /\ observer = StartPosition
  /\ moved = NoMove
  /\ lastPlayerPosition = [x |-> 0, z |-> 0]
  /\ isOnGround = FALSE
  /\ verticalVelocity = 0
  /\ keys = {}
  /\ tick = NoTick
  /\ edited = NoEdits
  /\ game = NoGame

\* The draws of the pass an operation runs when it finds the chunk absent; no
\* pass runs on a cached chunk.
DrawsIfAbsent(chunkX, chunkZ) ==
  IF getChunkKey(chunkX, chunkZ) \in DOMAIN chunks
    THEN {PlainDraw}
    ELSE PassDraws(chunkX, chunkZ)

GetOrGenerateChunk(chunkX, chunkZ) ==
  /\ ops < MaxOps
  /\ \E draw \in DrawsIfAbsent(chunkX, chunkZ) :
       Apply(getOrGenerateChunk(Store, chunkX, chunkZ, draw))
  /\ ops' = ops + 1
  /\ last' = Found("generate", Position(chunkX * CHUNK_SIZE, 0, chunkZ * CHUNK_SIZE), "none")
  /\ UNCHANGED <<collisionVars, worldVars, controlVars, edited, game>>

\* The draws of the passes of a refresh around (playerX, playerZ).
RefreshDraws(playerX, playerZ) ==
  LET observed == {k \in loadedChunks(playerX, playerZ) \ DOMAIN chunks :
                     ColsOfChunk(k[1], k[2]) # {}}
      all == UNION {PassDraws(k[1], k[2]) : k \in observed}
  IN  {d \in [observed -> all] : \A k \in observed : d[k] \in PassDraws(k[1], k[2])}

\* refreshLoaded on the store, whatever the session it is part of.
Refresh(playerX, playerZ) ==
  /\ \E draws \in RefreshDraws(playerX, playerZ) :
       Apply(updateLoadedChunks(Store, playerX, playerZ, draws))
  /\ ops' = ops + 1
  /\ last' = Found("refresh", Position(playerX, 0, playerZ), "none")
  /\ UNCHANGED <<collisionVars, worldVars, controlVars>>

UpdateLoadedChunks(playerX, playerZ) ==
  /\ ops < MaxOps
  /\ Refresh(playerX, playerZ)
  /\ UNCHANGED <<edited, game>>

\* place on the store, whatever the session it is part of.
Place(position, type) ==
  /\ LET chunkCoord == getChunkCoord(position.x, position.z)
     IN  \E draw \in DrawsIfAbsent(chunkCoord.x, chunkCoord.z) :
           Apply(placeBlock(Store, position, type, draw))
  /\ ops' = ops + 1
  /\ last' = Found("place", position, type)
  /\ UNCHANGED <<collisionVars, worldVars, controlVars>>

PlaceBlock(position, type) ==
  /\ ops < MaxOps
  /\ Place(position, type)
  /\ UNCHANGED <<edited, game>>

\* remove on the store, whatever the session it is part of.
Remove(position) ==
  /\ Apply(removeBlock(Store, position))
  /\ ops' = ops + 1
  /\ last' = Found("remove", position, "none")
  /\ UNCHANGED <<collisionVars, worldVars, controlVars>>

RemoveBlock(position) ==
  /\ ops < MaxOps
  /\ Remove(position)
  /\ UNCHANGED <<edited, game>>

\* The callback of setTimeout: chunk.generated = true on the object it closed over.
ReadyTimer ==
  /\ timers # <<>>
  /\ chunks' = [k \in DOMAIN chunks |->
                  IF chunks[k].id = Head(timers)
                    THEN [chunks[k] EXCEPT !.generated = TRUE]
                    ELSE chunks[k]]
  /\ timers' = Tail(timers)
  /\ last' = Found("timer", NoPosition, "none")
  /\ UNCHANGED <<nextId, ops, collisionVars, worldVars, controlVars, edited, game>>

\* A well-formed snapshot of another world: chunk (-1,0) as generated.
SavedWorld ==
  getWorldData((<<-1, 0>> :> generateChunk(-1, 0,
     [fail |-> FALSE, col |-> [c \in ColsOfChunk(-1, 0) |-> NoTree(c[1], c[2])]])))

\* Corrupt payloads: an object without a chunks field; the saved world with
\* a null entry added; the saved world with an entry whose blocks field is
\* not a list added.
NoChunksData == [version |-> 1]
NullEntryData == [chunks |-> (<<5, 5>> :> NullData) @@ SavedWorld.chunks]
NotListData ==
  [chunks |-> (<<5, 5>> :> [x |-> 5, z |-> 5, blocks |-> {}, waterBlocks |-> {},
                            generated |-> TRUE, notList |-> TRUE]) @@ SavedWorld.chunks]

\* The payloads of a restore, each with the orders of its keys that matter:
\* the snapshot of the current world, the saved world, null and the corrupt
\* payloads.
Payloads ==
  {<<getWorldData(chunks), <<>>>>, <<SavedWorld, <<>>>>, <<NullData, <<>>>>,
   <<NoChunksData, <<>>>>,
   <<NullEntryData, <<<<-1, 0>>, <<5, 5>>>>>>,
   <<NotListData, <<<<-1, 0>>, <<5, 5>>>>>>}

\* restore: WorldManager.loadWorldData on a payload.
LoadWorldData(data, order) ==
  /\ ops < MaxOps
  /\ \E draws \in (IF isNull(data) THEN RefreshDraws(0, 0) ELSE {EmptyMap}) :
       LET r == worldManagerLoadWorldData(Store, data, order, draws)
       IN  /\ Apply(r)
           /\ last' = [Found("restore", NoPosition, "none") EXCEPT
                         !.data = data, !.threw = r.threw]
  /\ ops' = ops + 1
  /\ UNCHANGED <<collisionVars, worldVars, controlVars, edited, game>>

\* clear
Clear ==
  /\ ops < MaxOps
  /\ chunks' = EmptyMap
  /\ ops' = ops + 1
  /\ last' = Found("clear", NoPosition, "none")
  /\ UNCHANGED <<timers, nextId, collisionVars, worldVars, controlVars, edited, game>>

Next ==
  \/ \E k \in FaultChunks : GetOrGenerateChunk(k[1], k[2])
  \/ \E x \in ObserverXs : UpdateLoadedChunks(x, 0)
  \/ \E i \in PlaceInputs : PlaceBlock(i[1], i[2])
  \/ \E p \in MutPositions : RemoveBlock(p)
  \/ ReadyTimer
  \/ \E p \in Payloads : LoadWorldData(p[1], p[2])
  \/ Clear

Spec == Init /\ [][Next]_vars

----------------------------------------------------------------------------
(* A streaming session on the chunk store: a block is placed, a terrain    *)
(* block is removed, and the observer travels between the origin and a far *)
(* place, with no restore and no clear. edited keeps, for each position of *)
(* an edit that reached a chunk, the kind of the latest one (a remove that *)
(* found no block is "remove-none") and whether a refresh has left the     *)
(* position's chunk outside its square since.                              *)

MaxEdits == 4

PlacedPosition == Position(-1, 30, 0)
RemovedPosition == Position(-1, 0, 0)

Edit(kind) == [kind |-> kind, evicted |-> FALSE]

SessionPlace(position) ==
  /\ ops < MaxEdits
  /\ Place(position, "stone")
  /\ edited' = (position :> Edit("place")) @@ edited
  /\ UNCHANGED game

SessionRemove(position) ==
  /\ ops < MaxEdits
  /\ Remove(position)
  /\ edited' = IF last'.cached
                 THEN (position :> Edit(IF last'.hadBlock THEN "remove" ELSE "remove-none"))
                        @@ edited
                 ELSE edited
  /\ UNCHANGED game

SessionRefresh(playerX, playerZ) ==
  /\ ops < MaxEdits
  /\ Refresh(playerX, playerZ)
  /\ edited' = [p \in DOMAIN edited |->
                  IF /\ chunkKeyOf(p) \in DOMAIN chunks
                     /\ chunkKeyOf(p) \notin loadedChunks(playerX, playerZ)
                    THEN [edited[p] EXCEPT !.evicted = TRUE]
                    ELSE edited[p]]
  /\ UNCHANGED game

NextSession ==
  \/ SessionPlace(PlacedPosition)
  \/ SessionRemove(RemovedPosition)
  \/ \E x \in ObserverXs : SessionRefresh(x, 0)

SpecSession == Init /\ [][NextSession]_vars

----------------------------------------------------------------------------
(* The world coordinator as a state machine: a session that starts with     *)
(* generateTerrain and then polls updateWorld with the observer's position  *)
(* in block units (GameWorld.tsx:42, 65).                                   *)

\* The observer's positions at a tick.
TickXs == {-9, -8, -5, -4, -1, 0, 4, 5, 9}
TickZs == {0, 5}

World ==
  [chunks |-> chunks, timers |-> timers, nextId |-> nextId,
   lastPlayerPosition |-> lastPlayerPosition]

GenerateTerrain ==
  /\ ops = 0
  /\ \E draws \in RefreshDraws(0, 0) : Apply(generateTerrain(Store, draws))
  /\ ops' = ops + 1
  /\ last' = Found("terrain", NoPosition, "none")
  /\ UNCHANGED <<collisionVars, worldVars, controlVars, edited, game>>

UpdateWorld(playerX, playerZ) ==
  /\ ops > 0 /\ ops <= MaxTicks
  /\ \E draws \in RefreshDraws(playerX, playerZ) :
       LET w == updateWorld(World, playerX, playerZ, draws)
       IN  /\ Apply(w)
           /\ lastPlayerPosition' = w.lastPlayerPosition
           /\ last' = Found("tick", Position(playerX, 0, playerZ),
                            IF w.refreshed THEN "refresh" ELSE "skip")
  /\ ops' = ops + 1
  /\ UNCHANGED <<collisionVars, controlVars, edited, game>>

NextWorld ==
  \/ GenerateTerrain
  \/ \E x \in TickXs, z \in TickZs : UpdateWorld(x, z)
  \/ ReadyTimer

SpecWorld == Init /\ [][NextWorld]_vars

----------------------------------------------------------------------------
(* The collision resolver as a state machine: the index is rebuilt from a  *)
(* block list, and the observer is moved by checkCollision.                *)

InitResolve ==
  /\ chunks = EmptyMap
  /\ timers = <<>>
  /\ nextId = 1
  /\ ops = 0
  /\ last = Found("init", NoPosition, "none")
  /\ collisionBlocks = {}
  /\ observer \in [x : GridX, y : GridY, z : GridZ]
  /\ moved = NoMove
  /\ lastPlayerPosition = [x |-> 0, z |-> 0]
  /\ isOnGround = FALSE
  /\ verticalVelocity = 0
  /\ keys = {}
  /\ tick = NoTick
  /\ edited = NoEdits
  /\ game = NoGame

UpdateBlocks(cells) ==
  /\ collisionBlocks' = updateBlocks({Block(c[1], c[2], c[3], "stone") : c \in cells})
  /\ moved' = [NoMove EXCEPT !.op = "update"]
  /\ UNCHANGED <<observer, storeVars, worldVars, controlVars, edited, game>>

CheckCollision(velocity) ==
  LET to == checkCollision(collisionBlocks, observer, velocity)
  IN  /\ InGrid(Vec(observer.x + velocity.x, observer.y + velocity.y, observer.z + velocity.z))
      /\ observer' = to
      /\ moved' = [op |-> "resolve", from |-> observer, velocity |-> velocity, to |-> to]
      /\ UNCHANGED <<collisionBlocks, storeVars, worldVars, controlVars, edited, game>>

\* getGroundHeight at the observer's (x, z); the result is kept as the y of
\* moved.to.
GetGroundHeight ==
  /\ moved' = [op |-> "ground", from |-> observer, velocity |-> Vec(0, 0, 0),
                to |-> Vec(observer.x,
                           getGroundHeight(collisionBlocks, observer.x, observer.z),
                           observer.z)]
  /\ UNCHANGED <<collisionBlocks, observer, storeVars, worldVars, controlVars, edited, game>>

NextResolve ==
  \/ \E cells \in SUBSET CellPool : UpdateBlocks(cells)
  \/ \E vx \in Steps, vy \in Steps, vz \in Steps : CheckCollision(Vec(vx, vy, vz))
  \/ GetGroundHeight

SpecResolve == InitResolve /\ [][NextResolve]_vars

----------------------------------------------------------------------------
(* The movement controller as a state machine: key events change the held  *)
(* keys; a frame (animate) runs updateMovement against the collision index *)
(* of the frame before and then rebuilds the index from the block list of  *)
(* the world.                                                              *)

MaxMoves == 3

\* The held keys of the model: back (+Z for the initial orientation), jump /
\* fly up, fly down.
MoveKeys == {"KeyS", "Space", "ShiftLeft"}

\* The cells of the block lists of the world: a floor cell under the
\* observer; cells at the ends of the scan of getGroundHeight and just beyond
\* them.
FloorCell == <<0, 0, 0>>
MoveIndexes ==
  {{FloorCell},
   {FloorCell, <<0, 200, 0>>, <<0, 201, 0>>},
   {<<0, -11, 0>>, <<0, 201, 0>>},
   {<<0, -10, 0>>, <<0, -11, 0>>}}

\* A cell of the next column at head height, which a place adds to the world
\* with the floor cell and a remove takes away.
HeadCell == <<0, 3, 1>>

\* The cells of the world's block list at a frame, given the cells of the
\* frame before: the same cells, or the head cell placed or removed.
BlockLists(cells) ==
  {cells} \cup (IF cells \in {{FloorCell}, {FloorCell, HeadCell}}
                  THEN {{FloorCell}, {FloorCell, HeadCell}}
                  ELSE {})

\* The observer hovers 0.25 above the stand height of the floor cell: a
\* position the fly keys reach from the camera's start (0, 40, 0), with the
\* vertical velocity 0 and isOnGround false that a fly tick leaves, and the
\* index of the frame before.
MoveStart == Vec(0, 315, 0)

InitMove ==
  /\ chunks = EmptyMap
  /\ timers = <<>>
  /\ nextId = 1
  /\ ops = 0
  /\ last = Found("init", NoPosition, "none")
  /\ collisionBlocks \in MoveIndexes
  /\ observer = MoveStart
  /\ moved = NoMove
  /\ lastPlayerPosition = [x |-> 0, z |-> 0]
  /\ isOnGround = FALSE
  /\ verticalVelocity = 0
  /\ keys = {}
  /\ tick = NoTick
  /\ edited = NoEdits
  /\ game = NoGame

\* onKeyDown: keys.add(event.code)
OnKeyDown(code) ==
  /\ code \notin keys
  /\ keys' = keys \cup {code}
  /\ UNCHANGED <<storeVars, collisionVars, worldVars, isOnGround, verticalVelocity, tick, edited, game>>

\* onKeyUp: keys.delete(event.code)
OnKeyUp(code) ==
  /\ code \in keys
  /\ keys' = keys \ {code}
  /\ UNCHANGED <<storeVars, collisionVars, worldVars, isOnGround, verticalVelocity, tick, edited, game>>

\* animate: controls.update() (updateRotation returns at once without pointer
\* lock; updateMovement moves the camera), then collision.updateBlocks on the
\* block list of the world.
Animate(cells) ==
  /\ ops < MaxMoves
  /\ \E m \in {updateMovement(collisionBlocks, observer, isOnGround, verticalVelocity, keys)} :
       /\ observer' = m.position
       /\ isOnGround' = m.isOnGround
       /\ verticalVelocity' = m.verticalVelocity
       /\ tick' = [op |-> "move", keys |-> keys, index |-> collisionBlocks,
                   from |-> observer, wasOnGround |-> isOnGround,
                   vvStart |-> verticalVelocity, velocity |-> m.velocity,
                   vvTest |-> m.vvTest, resolved |-> m.resolved,
                   groundHeight |-> m.groundHeight]
  /\ collisionBlocks' = updateBlocks({Block(c[1], c[2], c[3], "stone") : c \in cells})
  /\ ops' = ops + 1
  /\ UNCHANGED <<chunks, timers, nextId, last, moved, worldVars, keys, edited, game>>

NextMove ==
  \/ \E code \in MoveKeys : OnKeyDown(code)
  \/ \E code \in MoveKeys : OnKeyUp(code)
  \/ \E cells \in BlockLists(collisionBlocks) : Animate(cells)

SpecMove == InitMove /\ [][NextMove]_vars


----------------------------------------------------------------------------
(* The generation pass on two neighbouring columns of chunk (0,0) that can  *)
(* both carry a tree: of each tree's canopy the cell on the other column is *)
(* observed.                                                               *)

GroveCols == {<<1, 0>>, <<1, 1>>}

\* The draws of a column of the grove: no tree, or a tree with the draw of
\* its height (0..3) and the draws of the canopy cell on the other column.
GroveColumnDraws(c) ==
  {[tree |-> FALSE, height |-> 0, leaves |-> [d \in GroveCols \ {c} |-> 0]]} \cup
  {[tree |-> TRUE, height |-> t, leaves |-> l] :
     t \in 0..3, l \in [GroveCols \ {c} -> 0..2]}

GroveDraws ==
  {[fail |-> FALSE, col |-> d] :
     d \in {e \in [GroveCols -> UNION {GroveColumnDraws(c) : c \in GroveCols}] :
              \A c \in GroveCols : e[c] \in GroveColumnDraws(c)}}

\* generateChunk(0, 0) on an empty cache, with the draws of the pass kept.
GenerateChunk(draw) ==
  /\ ops = 0
  /\ chunks' = (getChunkKey(0, 0) :> generateChunk(0, 0, draw))
  /\ ops' = ops + 1
  /\ last' = [Found("pass", NoPosition, "none") EXCEPT !.data = draw]
  /\ UNCHANGED <<timers, nextId, collisionVars, worldVars, controlVars, edited, game>>

NextGenerate == \E draw \in GroveDraws : GenerateChunk(draw)

SpecGenerate == Init /\ [][NextGenerate]_vars

----------------------------------------------------------------------------
(* The game (GameWorld): the effect that sets a game up, the frame of the  *)
(* animation loop and the click listener, on the chunk store, the world    *)
(* coordinator, the movement controller and the collision resolver. The    *)
(* model follows the game the component refers to (gameRef.current): the    *)
(* objects the effect created last. In this specification the reference    *)
(* position of the world coordinator is playerPos / 0.5 in 90ths of a      *)
(* block, the unit of the camera's coordinates.                            *)

MaxMounts == 2     \* runs of the effect in one behaviour
MaxFrames == 10    \* frames of the first game
MaxFramesAfter == 2  \* frames of a game set up by a later run of the effect
MaxClicks == 1     \* clicks in one behaviour

\* camera.position.set(0, 40, 0)
CameraStart == Vec(0, 40 * 180, 0)

\* The keys of the game: left (-X for the initial orientation), which is
\* pressed and held.
GameKeys == {"KeyA"}

\* The positions of the clicks: a place on top of the terrain of column
\* (-1,0); a place on the east face of the top block of column (31,0), the
\* last column of the square loaded around the origin; a remove of the top
\* block of column (-1,0).
FarPosition == Position(32, 80, 0)
GamePlaces == {Position(-1, 17, 0), FarPosition}
GameRemoves == {Position(-1, 16, 0)}

\* The block types selected in the inventory.
SelectTypes == {"grass", "stone"}

\* The draws of generateTerrain on an empty cache: a world without trees, and
\* the same world with the pass over chunk (-1,0) failing.
TerrainDraws ==
  LET observed == {k \in loadedChunks(0, 0) : ColsOfChunk(k[1], k[2]) # {}}
      plain(k) == [fail |-> FALSE, col |-> [c \in ColsOfChunk(k[1], k[2]) |-> NoTree(c[1], c[2])]]
  IN  {[k \in observed |-> plain(k)],
       [k \in observed |-> IF k = <<-1, 0>> THEN [plain(k) EXCEPT !.fail = TRUE] ELSE plain(k)]}

\* world.updateWorld(playerPos.x / 0.5, playerPos.z / 0.5) on the camera's
\* position: the arguments and the reference position are in 90ths of a
\* block, so the threshold 4 is 4 * 90, and Math.floor(playerX / CHUNK_SIZE)
\* is the floor of the whole blocks of playerX divided by CHUNK_SIZE.
updateWorldAtCamera(w, cameraX, cameraZ, draws) ==
  LET dx == Abs(cameraX - w.lastPlayerPosition.x)
      dz == Abs(cameraZ - w.lastPlayerPosition.z)
      r == updateLoadedChunks(w, cameraX \div BLOCK_SIZE, cameraZ \div BLOCK_SIZE, draws)
  IN  IF dx > 4 * BLOCK_SIZE \/ dz > 4 * BLOCK_SIZE
        THEN [chunks |-> r.chunks, timers |-> r.timers, nextId |-> r.nextId,
              lastPlayerPosition |-> [x |-> cameraX, z |-> cameraZ], refreshed |-> TRUE]
        ELSE [chunks |-> w.chunks, timers |-> w.timers, nextId |-> w.nextId,
              lastPlayerPosition |-> w.lastPlayerPosition, refreshed |-> FALSE]

\* animate that rebuilds the collision index before the world is updated.
animate_IndexBeforeUpdate(w, index, position, onGround, vv, held, draws) ==
  LET move == updateMovement(index, position, onGround, vv, held)
      blocks == DOMAIN getAllLoadedBlocks(w.chunks)
      world == updateWorldAtCamera(w, move.position.x, move.position.z, draws)
  IN  [move |-> move, world |-> world, index |-> updateBlocks(blocks)]

\* One frame of animate: controls.update() moves the camera against the index
\* of the frame before; world.updateWorld on the camera's new position;
\* world.getBlocks(); collision.updateBlocks(blocks).
animate(w, index, position, onGround, vv, held, draws) ==
  LET move == updateMovement(index, position, onGround, vv, held)
      world == updateWorldAtCamera(w, move.position.x, move.position.z, draws)
      blocks == DOMAIN getAllLoadedBlocks(world.chunks)
  IN  [move |-> move, world |-> world, index |-> updateBlocks(blocks)]

\* initGame that neither restores nor generates a world.
initGame_NoTerrain(st, worldData, draws) ==
  [chunks |-> EmptyMap, timers |-> st.timers, nextId |-> st.nextId, threw |-> FALSE]

\* initGame: a new WorldManager, whose cache is empty, restored from the
\* save's worldData or, without one, generated around the origin. The
\* callbacks pending on the chunks of the game before stay pending.
initGame(st, worldData, draws) ==
  worldManagerLoadWorldData([chunks |-> EmptyMap, timers |-> st.timers, nextId |-> st.nextId],
                            worldData, <<>>, draws)

\* The effect of the component, which runs when it is mounted and again
\* when selectedBlock changes. Its cleanup calls controls.dispose(), which
\* removes no listener (it passes new bound functions); nothing cancels the
\* animation loop of the game before and nothing removes its click listener.
\* initGame creates a renderer (and camera), a world, a collision resolver
\* and controls, adds a click listener and starts an animation loop.
RunEffect(op, worldData, selected) ==
  /\ game.loops < MaxMounts
  /\ \E draws \in (IF isNull(worldData) THEN TerrainDraws ELSE {EmptyMap}) :
       Apply(initGame(Store, worldData, draws))
  /\ observer' = CameraStart
  /\ collisionBlocks' = {}
  /\ lastPlayerPosition' = [x |-> 0, z |-> 0]
  /\ isOnGround' = FALSE
  /\ verticalVelocity' = 0
  /\ keys' = {}
  /\ tick' = NoTick
  /\ game' = [game EXCEPT !.worldData = worldData, !.selectedBlock = selected,
                          !.loops = @ + 1, !.handlers = @ + 1, !.frames = 0]
  /\ last' = Found(op, NoPosition, selected)
  /\ UNCHANGED <<ops, moved, edited>>

\* The component is mounted with a save: a new world (worldData null) or a
\* saved one.
Mount(worldData) ==
  /\ game.loops = 0
  /\ RunEffect("mount", worldData, game.selectedBlock)

\* setSelectedBlock(type) from the inventory: a state change re-runs the effect.
SelectBlock(type) ==
  /\ game.loops > 0
  /\ type # game.selectedBlock
  /\ RunEffect("select", game.worldData, type)

\* A frame of the animation loop of the current game.
Frame ==
  /\ game.loops > 0
  /\ game.frames < (IF game.loops = 1 THEN MaxFrames ELSE MaxFramesAfter)
  /\ \E m \in {updateMovement(collisionBlocks, observer, isOnGround, verticalVelocity, keys)} :
     \E draws \in RefreshDraws(m.position.x \div BLOCK_SIZE, m.position.z \div BLOCK_SIZE) :
     \E f \in {animate(World, collisionBlocks, observer, isOnGround, verticalVelocity,
                       keys, draws)} :
       /\ Apply(f.world)
       /\ lastPlayerPosition' = f.world.lastPlayerPosition
       /\ observer' = f.move.position
       /\ isOnGround' = f.move.isOnGround
       /\ verticalVelocity' = f.move.verticalVelocity
       /\ tick' = [op |-> "move", keys |-> keys, index |-> collisionBlocks,
                   from |-> observer, wasOnGround |-> isOnGround,
                   vvStart |-> verticalVelocity, velocity |-> f.move.velocity,
                   vvTest |-> f.move.vvTest, resolved |-> f.move.resolved,
                   groundHeight |-> f.move.groundHeight]
       /\ collisionBlocks' = f.index
       /\ last' = Found("frame",
                        Position(f.move.position.x \div BLOCK_SIZE, 0,
                                 f.move.position.z \div BLOCK_SIZE),
                        IF f.world.refreshed THEN "refresh" ELSE "skip")
       /\ edited' = [p \in DOMAIN edited |->
                       IF /\ chunkKeyOf(p) \in DOMAIN chunks
                          /\ chunkKeyOf(p) \notin DOMAIN f.world.chunks
                         THEN [edited[p] EXCEPT !.evicted = TRUE]
                         ELSE edited[p]]
  /\ game' = [game EXCEPT !.frames = @ + 1]
  /\ UNCHANGED <<ops, moved, keys>>

\* handleClick with the left button: world.placeBlock(intersect.position, selectedBlock)
ClickPlace(position) ==
  /\ game.handlers > 0
  /\ game.clicks < MaxClicks
  /\ Place(position, game.selectedBlock)
  /\ edited' = (position :> Edit("place")) @@ edited
  /\ game' = [game EXCEPT !.clicks = @ + 1]

\* handleClick with the right button: world.removeBlock(intersect.blockPosition)
ClickRemove(position) ==
  /\ game.handlers > 0
  /\ game.clicks < MaxClicks
  /\ Remove(position)
  /\ edited' = IF last'.cached
                 THEN (position :> Edit(IF last'.hadBlock THEN "remove" ELSE "remove-none"))
                        @@ edited
                 ELSE edited
  /\ game' = [game EXCEPT !.clicks = @ + 1]

NextGame ==
  \/ \E worldData \in {NullData, SavedWorld} : Mount(worldData)
  \/ \E type \in SelectTypes : SelectBlock(type)
  \/ Frame
  \/ \E p \in GamePlaces : ClickPlace(p)
  \/ \E p \in GameRemoves : ClickRemove(p)
  \/ \E code \in GameKeys : game.loops > 0 /\ OnKeyDown(code)
  \/ ReadyTimer

SpecGame == Init /\ [][NextGame]_vars

----------------------------------------------------------------------------
(* Properties of the chunk store.                                          *)

BlockPositions(chs) ==
  UNION {{chs[c].blocks[k].position : k \in DOMAIN chs[c].blocks} : c \in DOMAIN chs}

WaterPositions(chs) ==
  UNION {{chs[c].waterBlocks[k].position : k \in DOMAIN chs[c].waterBlocks} : c \in DOMAIN chs}

\* A place request that placeBlock rejects.
Rejected(position, type) ==
  type = "water" \/ position.y < 0 \/ position.y > 420

\* C1: after any sequence of chunk generations, refreshLoaded, place and
\* remove (and restore, clear, readiness callbacks), no position holds both
\* a block and a water block, counted over all cached chunks together.
C1_Exclusive == BlockPositions(chunks) \cap WaterPositions(chunks) = {}

\* A block has just been placed on a position that held water.
C1_Witness ==
  /\ last.op = "place" /\ last.hadWater /\ ~Rejected(last.position, last.type)
  /\ last.position \in BlockPositions(chunks)

\* C2 (as claimed): for every world W the store reaches, the store restored
\* from the snapshot of W has the same set of blocks() and of water() as W.
C2_RoundTrip ==
  LET restored == loadWorldData(getWorldData(chunks))
  IN  /\ DOMAIN getAllLoadedBlocks(restored) = DOMAIN getAllLoadedBlocks(chunks)
      /\ DOMAIN getAllLoadedWaterBlocks(restored) = DOMAIN getAllLoadedWaterBlocks(chunks)

\* C3: immediately after refreshLoaded(ox, oz) the cached chunk coordinates
\* are exactly those within Chebyshev distance 3 of chunk(ox, oz), 49 in all,
\* whatever was cached before.
C3_StreamingBound ==
  last.op = "refresh" =>
    LET cx == last.position.x \div 8
        cz == last.position.z \div 8
    IN  /\ \A k \in DOMAIN chunks : Max(Abs(k[1] - cx), Abs(k[2] - cz)) <= 3
        /\ \A x \in (cx - 3)..(cx + 3), z \in (cz - 3)..(cz + 3) : <<x, z>> \in DOMAIN chunks
        /\ Cardinality(DOMAIN chunks) = 49

\* A refresh has just evicted chunks and generated others.
C3_Witness ==
  /\ last.op = "refresh"
  /\ last.before \ DOMAIN chunks # {}
  /\ DOMAIN chunks \ last.before # {}

\* C7: a place of water, or at y < 0 or y > 420, leaves the chunk store as it
\* was (no chunk generated or cached, no entry changed); any other place
\* leaves the position's chunk cached without a water entry at the position
\* and with exactly one block there, of the given material.
C7_Place ==
  [][last'.op = "place" =>
       LET p == last'.position
           pk == <<p.x, p.y, p.z>>
           key == <<p.x \div 8, p.z \div 8>>
       IN  IF Rejected(p, last'.type)
             THEN chunks' = chunks /\ timers' = timers /\ nextId' = nextId
             ELSE /\ key \in DOMAIN chunks'
                  /\ \A k \in DOMAIN chunks'[key].waterBlocks :
                       k # pk /\ chunks'[key].waterBlocks[k].position # p
                  /\ {k \in DOMAIN chunks'[key].blocks :
                        chunks'[key].blocks[k].position = p} = {pk}
                  /\ chunks'[key].blocks[pk] = [position |-> p, type |-> last'.type]]_vars

\* A place above the height range has just been rejected while its chunk was
\* not cached.
C7_Witness ==
  /\ last.op = "place" /\ last.position.y > 420 /\ last.type # "water"
  /\ ~last.cached
  /\ chunkKeyOf(last.position) \notin DOMAIN chunks

\* C8 (as claimed): a place at y in [0, 420] whose chunk is not cached caches
\* that chunk and records the block, and the block is in blocks() afterwards.
C8_PlaceVisible ==
  (last.op = "place" /\ ~Rejected(last.position, last.type) /\ ~last.cached) =>
    /\ chunkKeyOf(last.position) \in DOMAIN chunks
    /\ [position |-> last.position, type |-> last.type] \in DOMAIN getAllLoadedBlocks(chunks)

\* C8 (amended): such a place caches the chunk and records the block in it;
\* the block is in blocks() afterwards exactly when the chunk is ready, that
\* is, when its generation pass completed.
C8_PlaceGenerates ==
  (last.op = "place" /\ ~Rejected(last.position, last.type) /\ ~last.cached) =>
    LET p == last.position
        key == <<p.x \div 8, p.z \div 8>>
        b == [position |-> p, type |-> last.type]
    IN  /\ key \in DOMAIN chunks
        /\ <<p.x, p.y, p.z>> \in DOMAIN chunks[key].blocks
        /\ chunks[key].blocks[<<p.x, p.y, p.z>>] = b
        /\ (b \in DOMAIN getAllLoadedBlocks(chunks)) <=> chunks[key].generated

\* A place has just generated the chunk of its position and the block shows.
C8_Witness ==
  /\ last.op = "place" /\ ~Rejected(last.position, last.type) /\ ~last.cached
  /\ chunks[chunkKeyOf(last.position)].generated
  /\ DOMAIN chunks[chunkKeyOf(last.position)].waterBlocks # {}
  /\ [position |-> last.position, type |-> last.type] \in DOMAIN getAllLoadedBlocks(chunks)

\* C9: after remove(position) on a cached chunk, in that chunk: if y <= 20 the
\* position holds a water block of level 1.0 and no block; if y > 20 it holds
\* no block and no water block that was not there before.
C9_Remove ==
  (last.op = "remove" /\ last.cached) =>
    LET p == last.position
        pk == <<p.x, p.y, p.z>>
        ch == chunks[<<p.x \div 8, p.z \div 8>>]
        noBlock == \A k \in DOMAIN ch.blocks : k # pk /\ ch.blocks[k].position # p
    IN  IF p.y <= 20
          THEN /\ pk \in DOMAIN ch.waterBlocks
               /\ ch.waterBlocks[pk] = [position |-> p, level |-> 10]
               /\ noBlock
          ELSE /\ noBlock
               /\ (\E k \in DOMAIN ch.waterBlocks : k = pk \/ ch.waterBlocks[k].position = p)
                    => last.hadWater

\* A block at or below sea level, with no water at its position, has just
\* been removed.
C9_Witness ==
  /\ last.op = "remove" /\ last.cached /\ last.hadBlock /\ ~last.hadWater
  /\ last.position.y <= 20

\* C10 (as claimed): after remove(p) with the chunk containing p cached,
\* blocks() holds no block whose position is p.
C10_RemoveDeletes ==
  (last.op = "remove" /\ last.cached) =>
    \A b \in DOMAIN getAllLoadedBlocks(chunks) : b.position # last.position

----------------------------------------------------------------------------
(* Properties of the collision resolver.                                   *)

\* The observer's box at p meets the box of some occupied cell: the cube of
\* side 0.5 (90) centred at 0.5 * (i, j, k), every occupied cell considered.
Overlaps(index, p) ==
  \E c \in index :
    /\ p.x - 54 <= 90 * c[1] + 45 /\ p.x + 54 >= 90 * c[1] - 45
    /\ p.y - 180 <= 90 * c[2] + 45 /\ p.y >= 90 * c[2] - 45
    /\ p.z - 54 <= 90 * c[3] + 45 /\ p.z + 54 >= 90 * c[3] - 45

\* C4 (as claimed): from a position whose box meets no occupied cell,
\* resolve returns a position whose box meets no occupied cell.
C4_StaysOutside ==
  (moved.op = "resolve" /\ ~Overlaps(collisionBlocks, moved.from)) =>
    ~Overlaps(collisionBlocks, moved.to)

\* C5: when resolve rejects the X component because of an occupied cell and
\* the box moved only along Z (original x, corrected y) meets no occupied
\* cell, the result keeps x and takes z + delta.z.
C5_Sliding ==
  LET c == moved.from
      d == moved.velocity
      r == moved.to
  IN  ( /\ moved.op = "resolve"
        /\ d.x # 0 /\ r.x = c.x
        /\ Overlaps(collisionBlocks, Vec(c.x + d.x, c.y, c.z))
        /\ ~Overlaps(collisionBlocks, Vec(c.x, r.y, c.z + d.z)) )
      => (r.z = c.z + d.z /\ r.x = c.x)

\* From a position free of cell (0,0,0), the X component has just been
\* rejected against that cell while the observer moved on along Z.
C5_Witness ==
  /\ moved.op = "resolve" /\ collisionBlocks = {<<0, 0, 0>>}
  /\ ~Overlaps(collisionBlocks, moved.from)
  /\ moved.velocity.x # 0 /\ moved.velocity.z # 0
  /\ moved.to.x = moved.from.x
  /\ Overlaps(collisionBlocks, Vec(moved.from.x + moved.velocity.x, moved.from.y, moved.from.z))
  /\ ~Overlaps(collisionBlocks, Vec(moved.from.x, moved.to.y, moved.from.z + moved.velocity.z))
  /\ moved.to.z = moved.from.z + moved.velocity.z

\* C6: each component of the result is the current one or current + delta;
\* an axis is rejected exactly when the collision test finds a cell at the
\* position made of the decided values of the earlier axes, the moved value
\* of this axis and the original values of the later axes, in the order X, Y, Z.
C6_PerAxis ==
  moved.op = "resolve" =>
    LET c == moved.from
        d == moved.velocity
        r == moved.to
        hitX == hasCollisionAtPosition(collisionBlocks, Vec(c.x + d.x, c.y, c.z))
        hitY == hasCollisionAtPosition(collisionBlocks, Vec(r.x, c.y + d.y, c.z))
        hitZ == hasCollisionAtPosition(collisionBlocks, Vec(r.x, r.y, c.z + d.z))
    IN  /\ r.x \in {c.x, c.x + d.x} /\ r.y \in {c.y, c.y + d.y} /\ r.z \in {c.z, c.z + d.z}
        /\ r.x = (IF hitX THEN c.x ELSE c.x + d.x)
        /\ r.y = (IF hitY THEN c.y ELSE c.y + d.y)
        /\ r.z = (IF hitZ THEN c.z ELSE c.z + d.z)

\* A resolve has just rejected one axis and accepted another, both with a
\* displacement.
C6_Witness ==
  /\ moved.op = "resolve"
  /\ moved.velocity.x # 0 /\ moved.velocity.y # 0 /\ moved.velocity.z # 0
  /\ moved.to.x = moved.from.x + moved.velocity.x
  /\ moved.to.y = moved.from.y
  /\ moved.to.z = moved.from.z + moved.velocity.z

----------------------------------------------------------------------------
(* Mutations that the store ignores.                                       *)

\* C11: a remove at a position whose chunk is not cached changes nothing:
\* the cached chunks, their blocks, water and ready flags stay as they were
\* and no chunk is generated (no readiness callback is scheduled either).
C11_RemoveUncached ==
  [][(/\ last'.op = "remove"
      /\ <<last'.position.x \div 8, last'.position.z \div 8>> \notin DOMAIN chunks)
       => (chunks' = chunks /\ timers' = timers /\ nextId' = nextId)]_vars

\* A remove has just been issued at a position whose chunk is not cached,
\* while another chunk is cached and holds entries.
C11_Witness ==
  /\ last.op = "remove" /\ ~last.cached
  /\ chunkKeyOf(last.position) \notin DOMAIN chunks
  /\ \E k \in DOMAIN chunks : DOMAIN chunks[k].blocks # {}

\* C12 (as claimed): a place or a remove whose y is outside [0, 420], or whose
\* target chunk is not cached, leaves the chunk store unchanged.
C12_InvalidNoOp ==
  [][(/\ last'.op \in {"place", "remove"}
      /\ \/ last'.position.y < 0
         \/ last'.position.y > 420
         \/ <<last'.position.x \div 8, last'.position.z \div 8>> \notin DOMAIN chunks)
       => (chunks' = chunks /\ timers' = timers /\ nextId' = nextId)]_vars

----------------------------------------------------------------------------
(* Readiness.                                                              *)

\* C13: blocks() and water() hold exactly the entries of the cached chunks
\* whose ready flag is true, each entry once per ready chunk that holds it;
\* an entry of a cached chunk that is not ready is not listed.
C13_ReadyOnly ==
  LET ready == {c \in DOMAIN chunks :
                  /\ chunks[c].generated
                  /\ DOMAIN chunks[c].blocks \cup DOMAIN chunks[c].waterBlocks # {}}
      bs == getAllLoadedBlocks(chunks)
      ws == getAllLoadedWaterBlocks(chunks)
      keyOf(e) == <<e.position.x, e.position.y, e.position.z>>
      holds(c, field, e) ==
        keyOf(e) \in DOMAIN chunks[c][field] /\ chunks[c][field][keyOf(e)] = e
  IN  /\ \A c \in ready : \A k \in DOMAIN chunks[c].blocks :
            chunks[c].blocks[k] \in DOMAIN bs
      /\ \A c \in ready : \A k \in DOMAIN chunks[c].waterBlocks :
            chunks[c].waterBlocks[k] \in DOMAIN ws
      /\ \A b \in DOMAIN bs :
            bs[b] > 0 /\ bs[b] = Cardinality({c \in ready : holds(c, "blocks", b)})
      /\ \A w \in DOMAIN ws :
            ws[w] > 0 /\ ws[w] = Cardinality({c \in ready : holds(c, "waterBlocks", w)})

\* A chunk that is not ready holds a block that blocks() does not list, while
\* a ready chunk holds blocks that it does list.
C13_Witness ==
  /\ \E c \in DOMAIN chunks :
        /\ ~chunks[c].generated
        /\ \E k \in DOMAIN chunks[c].blocks :
              chunks[c].blocks[k] \notin DOMAIN getAllLoadedBlocks(chunks)
  /\ \E c \in DOMAIN chunks : chunks[c].generated /\ DOMAIN chunks[c].blocks # {}

\* C14 (as claimed): a chunk object cached by a generation pass that threw
\* (the objects a readiness callback is recorded for, id # 0) is not ready
\* for as long as it is cached, also after its callback has fired.
C14_FailedStaysNotReady ==
  \A k \in DOMAIN chunks : chunks[k].id # 0 => ~chunks[k].generated

----------------------------------------------------------------------------
(* Restore.                                                                *)

\* A payload is well formed when it is an object with a chunks field none of
\* whose entries is null or carries a blocks value that is not a list.
WellFormed(data) ==
  /\ ~isNull(data)
  /\ "chunks" \in DOMAIN data
  /\ \A k \in DOMAIN data.chunks :
        ~isNull(data.chunks[k]) /\ "notList" \notin DOMAIN data.chunks[k]

\* The key set of a fresh world: the chunks around the origin.
FreshKeys == {<<x, z>> : x \in -3..3, z \in -3..3}

\* C15 (as claimed): a restore of a payload that is not well formed does not
\* throw, and it leaves the store as it was, or empty, or a fresh world.
C15_CorruptRestore ==
  [][(last'.op = "restore" /\ ~WellFormed(last'.data)) =>
       /\ ~last'.threw
       /\ \/ chunks' = chunks
          \/ chunks' = EmptyMap
          \/ DOMAIN chunks' = FreshKeys]_vars

\* C16: after a restore of a well-formed snapshot the cached chunk keys are
\* exactly the keys of the snapshot, and the block and water entries of each
\* chunk are those the snapshot records; nothing cached before survives.
C16_RestoreReplaces ==
  [][(last'.op = "restore" /\ WellFormed(last'.data)) =>
       LET s == last'.data.chunks
       IN  /\ DOMAIN chunks' = DOMAIN s
           /\ \A k \in DOMAIN s :
                 /\ {<<e, chunks'[k].blocks[e]>> : e \in DOMAIN chunks'[k].blocks} = s[k].blocks
                 /\ {<<e, chunks'[k].waterBlocks[e]>> : e \in DOMAIN chunks'[k].waterBlocks}
                      = s[k].waterBlocks
                 /\ chunks'[k].x = s[k].x /\ chunks'[k].z = s[k].z]_vars

\* The saved world has just been restored over a store that held chunk
\* (-1,0) and a chunk the snapshot does not have.
C16_Witness ==
  /\ last.op = "restore" /\ last.data = SavedWorld
  /\ last.before \ DOMAIN chunks # {}
  /\ <<-1, 0>> \in last.before
  /\ DOMAIN chunks = {<<-1, 0>>}
  /\ DOMAIN chunks[<<-1, 0>>].blocks # {}

\* C17 (as claimed): the chunk restored from the snapshot of a cached chunk
\* has the ready flag the chunk had when the snapshot was taken.
C17_ReadyFlagRoundTrip ==
  LET restored == loadWorldData(getWorldData(chunks))
  IN  \A k \in DOMAIN chunks : restored[k].generated = chunks[k].generated

----------------------------------------------------------------------------
(* Properties of the world coordinator.                                    *)

\* The chunk keys within Chebyshev distance d of the chunk containing (x, z).
Around(x, z, d) ==
  {<<cx, cz>> : cx \in ((x \div 8) - d)..((x \div 8) + d),
               cz \in ((z \div 8) - d)..((z \div 8) + d)}

\* C18: a tick at (x, z) runs refreshLoaded exactly when x or z is more than
\* 4 away from the reference position; on those ticks the reference becomes
\* (x, z) and the cache is the square around it; on every other tick the
\* reference and the chunk cache stay as they were.
C18_Tick ==
  [][last'.op = "tick" =>
       LET p == last'.position
           ref == lastPlayerPosition
           far == \/ p.x - ref.x > 4 \/ ref.x - p.x > 4
                  \/ p.z - ref.z > 4 \/ ref.z - p.z > 4
       IN  /\ (last'.type = "refresh") <=> far
           /\ IF far
                THEN /\ lastPlayerPosition' = [x |-> p.x, z |-> p.z]
                     /\ DOMAIN chunks' = Around(p.x, p.z, 3)
                ELSE /\ lastPlayerPosition' = lastPlayerPosition
                     /\ chunks' = chunks /\ timers' = timers /\ nextId' = nextId]_vars

\* After a tick that moved the reference, a tick exactly 4 away from it on
\* the x axis has just left the reference and the cache alone.
C18_Witness ==
  /\ last.op = "tick" /\ last.type = "skip"
  /\ lastPlayerPosition # [x |-> 0, z |-> 0]
  /\ Abs(last.position.x - lastPlayerPosition.x) = 4
  /\ last.position.z = lastPlayerPosition.z

\* C19 (as claimed): after any tick, every chunk within Chebyshev distance 3
\* of the chunk containing the observer is cached.
C19_RenderDistance ==
  last.op = "tick" =>
    Around(last.position.x, last.position.z, 3) \subseteq DOMAIN chunks

\* C19 (amended): after any tick of a session of generateTerrain and ticks,
\* every chunk within Chebyshev distance 3 of the chunk containing the
\* reference position is cached; the observer is at most 4 blocks from the
\* reference on each axis, so every chunk within Chebyshev distance 2 of the
\* chunk containing the observer is cached.
C19_RenderAroundReference ==
  last.op = "tick" =>
    /\ Around(lastPlayerPosition.x, lastPlayerPosition.z, 3) \subseteq DOMAIN chunks
    /\ Abs(last.position.x - lastPlayerPosition.x) <= 4
    /\ Abs(last.position.z - lastPlayerPosition.z) <= 4
    /\ Around(last.position.x, last.position.z, 2) \subseteq DOMAIN chunks

\* A tick has just left the cache alone although the observer crossed into
\* another chunk: a chunk at distance 3 of the observer's chunk is not cached.
C19_Witness ==
  /\ last.op = "tick" /\ last.type = "skip"
  /\ <<last.position.x \div 8, last.position.z \div 8>>
       # <<lastPlayerPosition.x \div 8, lastPlayerPosition.z \div 8>>
  /\ ~(Around(last.position.x, last.position.z, 3) \subseteq DOMAIN chunks)

\* C20: the chunk coordinate c of an integer position (x, z) is the floor of
\* x / 8 and z / 8: 8 * c <= x < 8 * c + 8, negative coordinates included
\* (x = -1 and x = -8 map to chunk -1, x = -9 to chunk -2).
C20_FloorCoord ==
  last.op = "tick" =>
    LET x == last.position.x
        z == last.position.z
        c == getChunkCoord(x, z)
    IN  /\ 8 * c.x <= x /\ x < 8 * c.x + 8
        /\ 8 * c.z <= z /\ z < 8 * c.z + 8
        /\ (x = -1 => c.x = -1) /\ (x = -8 => c.x = -1) /\ (x = -9 => c.x = -2)

\* A tick at x = -9 has just refreshed the cache around chunk -2.
C20_Witness ==
  /\ last.op = "tick" /\ last.type = "refresh" /\ last.position.x = -9
  /\ getChunkCoord(last.position.x, last.position.z).x = -2
  /\ <<-5, 0>> \in DOMAIN chunks /\ <<2, 0>> \notin DOMAIN chunks

----------------------------------------------------------------------------
(* Completeness of the collision test.                                     *)

\* C30 (as claimed): at each of the three positions a resolve tests,
\* hasCollisionAtPosition is true exactly when the box of some occupied cell
\* meets the observer's box there.
C30_TestComplete ==
  moved.op = "resolve" =>
    LET c == moved.from
        d == moved.velocity
        r == moved.to
    IN  \A p \in {Vec(c.x + d.x, c.y, c.z), Vec(r.x, c.y + d.y, c.z),
                  Vec(r.x, r.y, c.z + d.z)} :
          hasCollisionAtPosition(collisionBlocks, p) <=> Overlaps(collisionBlocks, p)

----------------------------------------------------------------------------
(* Properties of freshly generated chunks and of the entries of the cache. *)

\* The keys of the chunks that a completed pass of the operation performed
\* last has generated.
JustGenerated ==
  IF last.op \in {"refresh", "terrain"}
    THEN {k \in DOMAIN chunks \ last.before : chunks[k].id = 0}
    ELSE IF last.op = "generate" /\ ~last.cached
      THEN {k \in {chunkKeyOf(last.position)} \cap DOMAIN chunks : chunks[k].id = 0}
      ELSE {}

\* C22: in a freshly generated chunk, every y with h < y <= 20 of a column
\* of clamped height h < 20 holds a water entry of level 1.0 and no block,
\* whatever trees the pass has placed.
C22_SeaFill ==
  \A k \in JustGenerated : \A c \in ColsOfChunk(k[1], k[2]) :
    LET h == clampedHeightAt(c[1], c[2])
    IN  h < 20 =>
          \A y \in (h + 1)..20 :
            /\ <<c[1], y, c[2]>> \in DOMAIN chunks[k].waterBlocks
            /\ chunks[k].waterBlocks[<<c[1], y, c[2]>>] =
                 [position |-> [x |-> c[1], y |-> y, z |-> c[2]], level |-> 10]
            /\ <<c[1], y, c[2]>> \notin DOMAIN chunks[k].blocks
            /\ \A b \in DOMAIN chunks[k].blocks :
                 chunks[k].blocks[b].position # [x |-> c[1], y |-> y, z |-> c[2]]

\* A refresh has just generated chunk (-1,0), with its column (-1,0) of
\* height 16 under water, next to a tree of chunk (0,0) whose canopy reaches
\* over that column.
C22_Witness ==
  /\ last.op = "refresh"
  /\ <<-1, 0>> \in JustGenerated /\ <<0, 0>> \in JustGenerated
  /\ <<-1, 30, 0>> \in DOMAIN chunks[<<0, 0>>].blocks
  /\ <<-1, 17, 0>> \in DOMAIN chunks[<<-1, 0>>].waterBlocks

\* C23: in a freshly generated chunk the block at the clamped height h of a
\* column is snow if h > 180, otherwise stone if h > 80, otherwise sand if
\* h <= 20, otherwise grass, whatever trees the pass has placed; it is never
\* dirt or wood.
C23_SurfaceBand ==
  \A k \in JustGenerated : \A c \in ColsOfChunk(k[1], k[2]) :
    LET h == clampedHeightAt(c[1], c[2])
        top == <<c[1], h, c[2]>>
    IN  /\ top \in DOMAIN chunks[k].blocks
        /\ chunks[k].blocks[top].type =
             (IF h > 180 THEN "snow"
              ELSE IF h > 80 THEN "stone"
              ELSE IF h <= 20 THEN "sand" ELSE "grass")
        /\ chunks[k].blocks[top].type \notin {"dirt", "wood"}

\* A pass has just generated chunk (0,0) with a tree on column (1,0): the
\* trunk stands on the grass block at the column's height 23.
C23_Witness ==
  /\ <<0, 0>> \in JustGenerated
  /\ <<1, 24, 0>> \in DOMAIN chunks[<<0, 0>>].blocks
  /\ chunks[<<0, 0>>].blocks[<<1, 24, 0>>].type = "wood"
  /\ chunks[<<0, 0>>].blocks[<<1, 23, 0>>].type = "grass"

\* A pass has just generated chunk (15,0): the top block of the mountain
\* column (120,0) of height 99 is stone.
C23_WitnessStone ==
  /\ <<15, 0>> \in JustGenerated
  /\ chunks[<<15, 0>>].blocks[<<120, 99, 0>>].type = "stone"

\* C24 (as claimed): every block and water entry of a cached chunk has a
\* position whose chunk coordinate is the chunk's own.
C24_Ownership ==
  \A k \in DOMAIN chunks :
    /\ \A b \in DOMAIN chunks[k].blocks :
         LET p == chunks[k].blocks[b].position
         IN  <<p.x \div 8, p.z \div 8>> = k
    /\ \A w \in DOMAIN chunks[k].waterBlocks :
         LET p == chunks[k].waterBlocks[w].position
         IN  <<p.x \div 8, p.z \div 8>> = k

\* C25 (as claimed): blocks() never holds two blocks with the same position.
C25_UniquePositions ==
  LET blocks == getAllLoadedBlocks(chunks)
  IN  \A b \in DOMAIN blocks :
        /\ blocks[b] = 1
        /\ \A c \in DOMAIN blocks : c.position = b.position => c = b

----------------------------------------------------------------------------
(* Eviction.                                                               *)

\* The edits made in chunk k have all been followed by an eviction of k.
AllEvicted(k) ==
  /\ \E p \in DOMAIN edited : chunkKeyOf(p) = k
  /\ \A p \in DOMAIN edited : chunkKeyOf(p) = k => edited[p].evicted

\* C26: when a chunk that was edited and then evicted is cached again, it is
\* the outcome of a generation pass over it: a block placed at a position
\* that generation leaves empty is absent, and, when the pass has completed,
\* a removed terrain block is back, with no water in its place.
C26_NoWriteBack ==
  \A p \in DOMAIN edited :
    LET k == chunkKeyOf(p)
        pk == <<p.x, p.y, p.z>>
    IN  (edited[p].evicted /\ k \in DOMAIN chunks) =>
          /\ edited[p].kind = "place" => pk \notin DOMAIN chunks[k].blocks
          /\ (edited[p].kind = "remove" /\ chunks[k].id = 0) =>
               /\ pk \in DOMAIN chunks[k].blocks
               /\ chunks[k].blocks[pk].position = p
               /\ pk \notin DOMAIN chunks[k].waterBlocks
          /\ AllEvicted(k) =>
               \E d \in PassDraws(k[1], k[2]) :
                 LET g == generateChunk(k[1], k[2], d)
                 IN  /\ chunks[k].blocks = g.blocks
                     /\ chunks[k].waterBlocks = g.waterBlocks

\* A block was placed in chunk (-1,0), the chunk was evicted, and a completed
\* pass of a refresh has just generated it again: the placed block is absent.
C26_Witness ==
  /\ last.op = "refresh" /\ <<-1, 0>> \in JustGenerated
  /\ PlacedPosition \in DOMAIN edited /\ edited[PlacedPosition].evicted
  /\ <<-1, 30, 0>> \notin DOMAIN chunks[<<-1, 0>>].blocks

\* A terrain block was removed from chunk (-1,0), the chunk was evicted, and
\* a completed pass of a refresh has just generated it again: the block is back.
C26_WitnessRemove ==
  /\ last.op = "refresh" /\ <<-1, 0>> \in JustGenerated
  /\ RemovedPosition \in DOMAIN edited /\ edited[RemovedPosition].evicted
  /\ <<-1, 0, 0>> \in DOMAIN chunks[<<-1, 0>>].blocks

----------------------------------------------------------------------------
(* Properties of the ground height and of the movement controller.         *)

\* C21: the ground height a tick computes at the resolved (x, z) is
\* (Y + 1) * 0.5 + 1.0 for the largest Y in -10..200 at which the column of
\* floor(x / 0.5), floor(z / 0.5) holds an occupied cell, and 1.0 when the
\* column holds none in that range; cells above 200 or below -10 do not count.
C21_GroundHeight ==
  tick.op = "move" =>
    LET cx == tick.resolved.x \div 90
        cz == tick.resolved.z \div 90
        occupied == {c[2] : c \in {d \in tick.index :
                        d[1] = cx /\ d[3] = cz /\ d[2] >= -10 /\ d[2] <= 200}}
    IN  IF occupied = {}
          THEN tick.groundHeight = 180
          ELSE \E Y \in occupied :
                 /\ \A w \in occupied : w <= Y
                 /\ tick.groundHeight = (Y + 1) * 90 + 180

\* A tick has computed the ground height of a column that holds cells at
\* y = 0, y = 200 and y = 201: the height is that of the cell at 200.
C21_Witness ==
  /\ tick.op = "move"
  /\ tick.index = {FloorCell, <<0, 200, 0>>, <<0, 201, 0>>}
  /\ tick.resolved.x \div 90 = 0 /\ tick.resolved.z \div 90 = 0
  /\ tick.groundHeight = 201 * 90 + 180

\* A tick has computed the ground height of a column whose only cells lie
\* at y = -11 and y = 201: the height is the minimum stand height.
C21_WitnessDefault ==
  /\ tick.op = "move"
  /\ tick.index = {<<0, -11, 0>>, <<0, 201, 0>>}
  /\ tick.groundHeight = 180

\* C27: at the end of a tick the observer is grounded exactly when the
\* resolved y was at or below the ground height of the resolved (x, z) and
\* the vertical velocity was not positive; a grounded observer stands at that
\* ground height with vertical velocity 0.
C27_Grounding ==
  tick.op = "move" =>
    LET g == getGroundHeight(tick.index, tick.resolved.x, tick.resolved.z)
    IN  /\ isOnGround <=> (tick.resolved.y <= g /\ tick.vvTest <= 0)
        /\ isOnGround => (observer.y = g /\ verticalVelocity = 0)
        /\ observer.x = tick.resolved.x /\ observer.z = tick.resolved.z

\* An airborne observer has just landed on the floor cell.
C27_Witness ==
  /\ tick.op = "move" /\ ~tick.wasOnGround /\ isOnGround
  /\ tick.index = {FloorCell}
  /\ observer.y = 270 /\ verticalVelocity = 0

\* The vertical velocity of the tick is the jump impulse with the gravity of
\* the tick.
Impulse == tick.vvTest = JumpImpulse + GravityStep

\* C28: the vertical velocity of a tick is the jump impulse only if Space is
\* held and the observer was grounded at the start of the tick; a tick of an
\* airborne observer with Space held (and gravity acting) only adds gravity
\* to the vertical velocity it started with; a tick with the impulse leaves
\* the observer airborne.
C28_JumpFromGround ==
  tick.op = "move" =>
    /\ Impulse => ("Space" \in tick.keys /\ tick.wasOnGround)
    /\ ("Space" \in tick.keys /\ ~tick.wasOnGround /\ "ShiftLeft" \notin tick.keys)
         => tick.vvTest = tick.vvStart + GravityStep
    /\ Impulse => ~isOnGround

\* Space is still held on the tick after a jump: the observer was airborne,
\* and its vertical velocity went from 8 - 1/3 to 8 - 2/3.
C28_Witness ==
  /\ tick.op = "move" /\ "Space" \in tick.keys /\ "ShiftLeft" \notin tick.keys
  /\ ~tick.wasOnGround
  /\ tick.vvStart = JumpImpulse + GravityStep
  /\ verticalVelocity = JumpImpulse + 2 * GravityStep
  /\ ~isOnGround

\* The vertical velocity a tick starts from once the jump is decided.
AfterJump ==
  IF "Space" \in tick.keys /\ tick.wasOnGround THEN JumpImpulse ELSE tick.vvStart

\* C29 (as claimed): on the ticks with ShiftLeft and Space both held the
\* vertical velocity is zeroed and the proposed vertical displacement is the
\* fly step; on every other tick gravity is added to the vertical velocity.
C29_FlyCombination ==
  tick.op = "move" =>
    IF {"ShiftLeft", "Space"} \subseteq tick.keys
      THEN tick.vvTest = 0 /\ tick.velocity.y = MoveStep
      ELSE tick.vvTest = AfterJump + GravityStep

\* C29 (amended): on the ticks with ShiftLeft held the vertical velocity is
\* zeroed and the proposed vertical displacement is the fly step, upward with
\* Space held and downward without; on the ticks without ShiftLeft gravity is
\* added to the vertical velocity, and the proposed vertical displacement is
\* that velocity times the tick's duration.
C29_ShiftBypassesGravity ==
  tick.op = "move" =>
    IF "ShiftLeft" \in tick.keys
      THEN /\ tick.vvTest = 0
           /\ tick.velocity.y = (IF "Space" \in tick.keys THEN MoveStep ELSE -MoveStep)
      ELSE /\ tick.vvTest = AfterJump + GravityStep
           /\ tick.velocity.y = tick.vvTest

\* A falling observer has just made a tick with ShiftLeft alone: its
\* vertical velocity was zeroed and it was moved down by the fly step.
C29_Witness ==
  /\ tick.op = "move" /\ tick.keys = {"ShiftLeft"}
  /\ tick.vvStart < 0 /\ tick.vvTest = 0
  /\ tick.velocity.y = -MoveStep

----------------------------------------------------------------------------
(* Properties of a whole movement tick.                                    *)

\* C31 (as claimed): a tick that starts from a position whose box meets no
\* occupied cell ends, after the resolution and the ground snap, at a
\* position whose box meets no occupied cell, and the observer's y does not
\* rise by more than the proposed vertical displacement of the tick.
C31_TickStaysOutside ==
  (tick.op = "move" /\ ~Overlaps(tick.index, tick.from)) =>
    /\ ~Overlaps(tick.index, observer)
    /\ observer.y > tick.from.y => observer.y - tick.from.y <= tick.velocity.y

----------------------------------------------------------------------------
(* Trees of one generation pass.                                           *)

\* C34 (as claimed): after a generation pass every column selected for a
\* tree holds a wood block at every y from h + 1 to h + treeHeight, whatever
\* other columns of the chunk were selected.
C34_TrunkComplete ==
  last.op = "pass" =>
    \A c \in DOMAIN last.data.col :
      LET d == last.data.col[c]
          h == clampedHeightAt(c[1], c[2])
          blocks == chunks[getChunkKey(0, 0)].blocks
      IN  (d.tree /\ TreeEligible(h)) =>
            \A y \in (h + 1)..(h + 6 + d.height) :
              /\ posKey(c[1], y, c[2]) \in DOMAIN blocks
              /\ blocks[posKey(c[1], y, c[2])].type = "wood"

----------------------------------------------------------------------------
(* The column of the ground height.                                        *)

\* C33 (as claimed): the ground height at (x, z) is that of the column whose
\* cell boxes contain (x, z) in their footprint: it is (Y + 1) * 0.5 + 1.0
\* for the largest Y in -10..200 of an occupied cell (i, Y, k) with
\* 0.5 * i - 0.25 <= x <= 0.5 * i + 0.25 and 0.5 * k - 0.25 <= z <= 0.5 * k + 0.25,
\* and 1.0 when there is no such cell.
C33_ProbedColumn ==
  moved.op = "ground" =>
    LET x == moved.from.x
        z == moved.from.z
        inFootprint(c) ==
          LET box == getBlockBoundingBox(c[1], c[2], c[3])
          IN  /\ box.min.x <= x /\ x <= box.max.x
              /\ box.min.z <= z /\ z <= box.max.z
        ys == {c[2] : c \in {d \in collisionBlocks :
                               inFootprint(d) /\ d[2] >= -10 /\ d[2] <= 200}}
    IN  IF ys = {} THEN moved.to.y = PLAYER_HEIGHT
        ELSE \E Y \in ys : /\ \A w \in ys : w <= Y
                           /\ moved.to.y = (Y + 1) * BLOCK_SIZE + PLAYER_HEIGHT

----------------------------------------------------------------------------
(* The deferred readiness callback.                                        *)

\* The ids of the callbacks pending.
Pending == {timers[i] : i \in 1..Len(timers)}

\* A step in which the first pending callback fires.
Fires == timers # <<>> /\ timers' = Tail(timers) /\ last'.op = "timer"

----------------------------------------------------------------------------
(* Properties of the game.                                                 *)

\* The chunk of the camera's position and the chunk of the reference
\* position, both positions being in 90ths of a block.
ObserverChunk == getChunkCoord(observer.x \div BLOCK_SIZE, observer.z \div BLOCK_SIZE)
ReferenceChunk ==
  getChunkCoord(lastPlayerPosition.x \div BLOCK_SIZE, lastPlayerPosition.z \div BLOCK_SIZE)

\* C32: at the end of a frame (movement, update of the world, getBlocks,
\* rebuild of the index) the keys of the collision index are exactly the
\* positions of the blocks of world.getBlocks() at that moment.
C32_IndexIsBlocks ==
  last.op = "frame" =>
    collisionBlocks =
      {posKey(b.position.x, b.position.y, b.position.z) : b \in DOMAIN getAllLoadedBlocks(chunks)}

\* A frame has refreshed the cache and evicted the chunk of a placed block
\* that the index of the frame before held: the index holds it no more.
C32_Witness ==
  /\ last.op = "frame" /\ last.type = "refresh"
  /\ chunkKeyOf(FarPosition) \in last.before \ DOMAIN chunks
  /\ posKey(FarPosition.x, FarPosition.y, FarPosition.z) \in tick.index \ collisionBlocks

\* C35 (as claimed): at the end of every frame of a game on a generated
\* world, every cached chunk lies within Chebyshev distance 3 of the chunk of
\* the reference position.
C35_CachedWithinRadius ==
  (last.op = "frame" /\ isNull(game.worldData)) =>
    \A k \in DOMAIN chunks :
      /\ Abs(k[1] - ReferenceChunk.x) <= RENDER_DISTANCE
      /\ Abs(k[2] - ReferenceChunk.z) <= RENDER_DISTANCE

\* C36: at the end of every frame of a game on a generated world, the chunk
\* of the observer and every chunk within Chebyshev distance 2 of it are
\* cached.
C36_ObserverSurrounded ==
  (last.op = "frame" /\ isNull(game.worldData)) =>
    \A x \in (ObserverChunk.x - 2)..(ObserverChunk.x + 2),
       z \in (ObserverChunk.z - 2)..(ObserverChunk.z + 2) :
      getChunkKey(x, z) \in DOMAIN chunks

\* After a click, the observer has walked out of the chunk of the reference
\* position in a frame that did not refresh the cache.
C36_Witness ==
  /\ last.op = "frame" /\ last.type = "skip" /\ isNull(game.worldData)
  /\ game.clicks > 0
  /\ ObserverChunk # ReferenceChunk

\* C37 (as claimed): at the end of the first frame of a game restored from
\* a save, the chunk of the observer is cached.
C37_ObserverChunkCached ==
  (last.op = "frame" /\ game.frames = 1 /\ ~isNull(game.worldData)) =>
    getChunkKey(ObserverChunk.x, ObserverChunk.z) \in DOMAIN chunks

\* C39 (as claimed): after another block type is selected, the blocks placed
\* and removed so far (in chunks not evicted since) are placed and removed in
\* the world of the game, and one animation loop and one click listener are
\* active.
C39_SelectKeepsWorld ==
  last.op = "select" =>
    /\ game.loops = 1
    /\ game.handlers = 1
    /\ \A p \in DOMAIN edited :
         LET k == chunkKeyOf(p)
             pk == posKey(p.x, p.y, p.z)
         IN  ~edited[p].evicted =>
               /\ k \in DOMAIN chunks
               /\ edited[p].kind = "place" => pk \in DOMAIN chunks[k].blocks
               /\ edited[p].kind = "remove" => pk \notin DOMAIN chunks[k].blocks

====
